---- MODULE Spec2Model ----
(***************************************************************************)
(* Model of the statsrelay sampler (src/src/sampling.c).                   *)
(*                                                                         *)
(* A C double is modelled by a tagged triple <<tag, n, d>>:                *)
(*   <<"num", n, d>>      the rational n/d in lowest terms, d > 0          *)
(*   <<"nan", 0, 1>>      NAN                                              *)
(*   <<"DBL_MIN", 0, 1>>  DBL_MIN, the smallest positive normal double     *)
(*   <<"DBL_MAX", 0, 1>>  DBL_MAX                                          *)
(* All numbers the model feeds in are small dyadic-friendly rationals for  *)
(* which the double arithmetic of the source is exact.                     *)
(***************************************************************************)
EXTENDS Integers, Sequences, FiniteSets, TLC

\* ------------------------------------------------------------------ bounds

\* Largest sampler threshold explored (sampler_init accepts any int >= 0).
MaxThreshold == 1
\* Largest cardinality explored.
MaxCardinality == 2
\* Largest hm_ttl explored (besides -1, "expiry disabled").
MaxTtl == 0
\* The coarse clock runs from 0 to MaxTime seconds.
MaxTime == 1
\* Most consider_* calls per key between two window rollovers.
MaxWindowEvents == 2
\* Same, in the single-key scenario specifications.
MaxScenarioEvents == 4
\* Largest accumulated bucket->count explored (an overflowing line or
\* sampler_update_flags carries the count over to the next window).
MaxCount == 2
\* Largest threshold and count in the single-key scenario specifications.
MaxScenarioThreshold == 2
MaxScenarioCount == 6
\* Most timer events per window, and largest count, in the timer scenario.
MaxTimerScenarioEvents == 5
MaxTimerScenarioCount == 2
\* Most timer events per window, and largest count, where lines overflow.
MaxOverflowEvents == 4
MaxOverflowCount == 3
\* Largest hm_ttl and latest second of the clock where idle buckets are
\* followed until they are reclaimed.
MaxIdleTtl == 1
MaxIdleTime == 2

\* Largest elider skip and gc_ttl, latest second of a timeval, most
\* consecutive elide_mark calls on one entry.
MaxSkip == 3
MaxGcTtl == 1
MaxElideTime == 2
MaxMarks == 2

\* ------------------------------------------------------- program constants

\* MAX_UDP_LENGTH, the size of line_buffer in sampler_flush_callback.
MAX_UDP_LENGTH == 1472

\* ---------------------------------------------------------------- doubles

RECURSIVE GCD(_, _)
GCD(a, b) == IF b = 0 THEN a ELSE GCD(b, a % b)

Abs(x) == IF x < 0 THEN 0 - x ELSE x

\* The rational n/d (d # 0) in lowest terms with a positive denominator.
Num(n, d) ==
    LET g == GCD(Abs(n), Abs(d))
        s == IF d < 0 THEN 0 - 1 ELSE 1
    IN  <<"num", (s * n) \div g, (s * d) \div g>>

D(n) == <<"num", n, 1>>

NAN == <<"nan", 0, 1>>
DBL_MIN == <<"DBL_MIN", 0, 1>>
DBL_MAX == <<"DBL_MAX", 0, 1>>

isnan(x) == x[1] = "nan"
IsNum(x) == x[1] = "num"

\* x < y on doubles; every comparison with NAN is false.  DBL_MIN lies
\* strictly between 0 and every positive number of the model, DBL_MAX above
\* every number of the model.
DLt(x, y) ==
    CASE isnan(x) \/ isnan(y) -> FALSE
      [] IsNum(x) /\ IsNum(y) -> x[2] * y[3] < y[2] * x[3]
      [] IsNum(x) /\ y[1] = "DBL_MIN" -> x[2] <= 0
      [] IsNum(x) /\ y[1] = "DBL_MAX" -> TRUE
      [] x[1] = "DBL_MIN" /\ IsNum(y) -> y[2] > 0
      [] x[1] = "DBL_MIN" /\ y[1] = "DBL_MAX" -> TRUE
      [] OTHER -> FALSE

DGt(x, y) == DLt(y, x)

\* x + y and x * y and 1.0 / x on numbers.
DAdd(x, y) == Num(x[2] * y[3] + y[2] * x[3], x[3] * y[3])
DMul(x, y) == Num(x[2] * y[2], x[3] * y[3])
DInv(x) == Num(x[3], x[2])

\* (uint64_t)x for a number x >= 0: truncation toward zero.
ToUint64(x) == x[2] \div x[3]

\* ------------------------------------------------- printf("%g") field width

RECURSIVE Pow10(_)
Pow10(e) == IF e = 0 THEN 1 ELSE 10 * Pow10(e - 1)

\* The decimal exponent X of n/d > 0: 10^X <= n/d < 10^(X+1).
RECURSIVE Exp10Up(_, _, _)
Exp10Up(n, d, x) == IF n < 10 * d THEN x ELSE Exp10Up(n, 10 * d, x + 1)
RECURSIVE Exp10Down(_, _, _)
Exp10Down(n, d, x) == IF n >= d THEN x ELSE Exp10Down(10 * n, d, x - 1)
Exp10(n, d) == IF n >= d THEN Exp10Up(n, d, 0) ELSE Exp10Down(n, d, 0)

\* n/d scaled to six significant digits and rounded to nearest.
Mantissa6(n, d, x) ==
    IF x <= 5 THEN (2 * n * Pow10(5 - x) + d) \div (2 * d)
              ELSE (2 * n + d * Pow10(x - 5)) \div (2 * d * Pow10(x - 5))

RECURSIVE TrailingZeros(_)
TrailingZeros(m) == IF m % 10 # 0 THEN 0 ELSE 1 + TrailingZeros(m \div 10)

\* The number of characters "%g" prints for the number q, for
\* 0.0001 <= |q| < 1000000 (fixed notation, trailing zeros removed) and 0.
GLen(q) ==
    IF q[2] = 0 THEN 1
    ELSE
      LET n == Abs(q[2])
          d == q[3]
          sign == IF q[2] < 0 THEN 1 ELSE 0
          x0 == Exp10(n, d)
          m0 == Mantissa6(n, d, x0)
          x == IF m0 = 1000000 THEN x0 + 1 ELSE x0
          m == IF m0 = 1000000 THEN 100000 ELSE m0
          s == 6 - TrailingZeros(m)
      IN  sign +
          (IF x >= 0
             THEN (x + 1) + (IF s > x + 1 THEN 1 + (s - (x + 1)) ELSE 0)
             ELSE 2 + ((0 - x) - 1) + s)

\* ------------------------------------------------------------------ inputs

COUNTER == "METRIC_COUNTER"
TIMER == "METRIC_TIMER"
GAUGE == "METRIC_GAUGE"
KV == "METRIC_KV"

SAMPLING == "SAMPLER_SAMPLING"
NOT_SAMPLING == "SAMPLER_NOT_SAMPLING"
FLAGGED == "SAMPLER_FLAGGED"

\* Metric names: a short one, and one so long that every counter and timer
\* line flushed for it overflows line_buffer, and a gauge line does when its
\* value takes three characters or more; and one for which a timer line fits
\* line_buffer only when its value and its rate take four characters or less.
ShortKey == "m1"
LongKey == "long"
MidKey == "mid"
Keys == {ShortKey, LongKey}
strlen(key) ==
    CASE key = LongKey -> MAX_UDP_LENGTH - 7
      [] key = MidKey -> MAX_UDP_LENGTH - 11
      [] OTHER -> 2

\* The metric types a parsed line or a query can carry.
SamplerTypes == {COUNTER, TIMER, GAUGE}
MetricTypes == SamplerTypes \cup {KV}

\* Values and presampling rates of the parsed lines fed to the sampler.
Values == {D(1)}
Rates == {D(1)}

Parsed(ty, v, p) == [type |-> ty, value |-> v, presampling_value |-> p]

\* ------------------------------------------------------------------- state

VARIABLES
    sampler,            \* struct sampler: threshold, cardinality,
                        \* timer_flush_min_max, base.hm_ttl (fixed by sampler_init)
    map,                \* sampler->map: metric name -> struct sample_bucket
    now,                \* the coarse clock read by timestamp(), in seconds
    heap_overflow,      \* a reservoir slot was written outside its allocation
    call,               \* the last operation and what it returned
    out,                \* the lines the last sampler_flush gave its callback, per key
    window_events,      \* per bucket: the consider_* calls since the last rollover
    created_in_window,  \* the buckets created since the last rollover
    closed_window,      \* right after a sampler_flush or an expiry sweep: the
                        \* two above as they were before it
    elide,              \* elide_t: skip, gc_ttl, elide_map (key -> elide_value_t)
    elide_call,         \* the last elider operation, its arguments and result
    marks,              \* per elide entry: the elide_mark calls since the entry
                        \* was created or last unmarked
    line,               \* the caller's line buffer given to validate_statsd
    result              \* what validate_statsd returned and stored in *result

sampler_vars == <<sampler, map, now, heap_overflow, call, out, window_events,
                  created_in_window, closed_window>>
elide_vars == <<elide, elide_call, marks>>
validate_vars == <<line, result>>

vars == <<sampler, map, now, heap_overflow, call, out, window_events,
          created_in_window, closed_window, elide, elide_call, marks, line,
          result>>

\* No elider has been initialized and no line has been validated.
NoElide == [skip |-> 0, gc_ttl |-> 0 - 1, elide_map |-> [k \in {} |-> <<>>]]
NoElideCall == [op |-> "", key |-> "", now |-> [tv_sec |-> 0, tv_usec |-> 0],
                ret |-> 0, logged |-> <<0, 0>>]
NoResult == [ret |-> 0 - 1, type |-> 0 - 1, value |-> NAN,
             presampling_value |-> NAN]

ElideUnused ==
    elide = NoElide /\ elide_call = NoElideCall /\ marks = [k \in {} |-> 0]

ValidateUnused == line = <<>> /\ result = NoResult

NoLines == [k \in {} |-> <<>>]
NoWindow == [events |-> [k \in {} |-> <<>>], created |-> {}]

\* Fields of a bucket that malloc left indeterminate are listed in "uninit".
NonTimerUninit ==
    {"reservoir_index", "upper", "lower", "upper_sample_rate", "lower_sample_rate"}

\* What an indeterminate field turns out to hold when consider_timer reads it.
UninitUpper == {DBL_MIN, D(0)}
UninitLower == {DBL_MAX, D(0)}
UninitIndex == {0, sampler.threshold}

\* ------------------------------------------------------------ sampler_init

\* sampler_init rejects threshold < 0; the cardinality is taken >= 0 and the
\* reservoir_size >= threshold, as the configuration requires.
SamplerConfigs ==
    [threshold : 0..MaxThreshold,
     cardinality : 0..MaxCardinality,
     timer_flush_min_max : BOOLEAN,
     hm_ttl : {0 - 1} \cup (0..MaxTtl)]

sampler_init(config) ==
    /\ sampler = config
    /\ map = [k \in {} |-> <<>>]
    /\ now = 0
    /\ heap_overflow = FALSE
    /\ call = [op |-> "sampler_init", key |-> "", type |-> "", ret |-> ""]
    /\ out = NoLines
    /\ closed_window = NoWindow
    /\ window_events = [k \in {} |-> <<>>]
    /\ created_in_window = {}
    /\ ElideUnused
    /\ ValidateUnused

Init == \E config \in SamplerConfigs : sampler_init(config)

\* ---------------------------------------------------------- window rollover

flush_upper_lower == sampler.timer_flush_min_max

\* Variant: leaves sampling only below the threshold, not at it.
sampler_update_callback_strict(bucket) ==
    LET b1 == IF bucket.last_window_count > sampler.threshold
                THEN [bucket EXCEPT !.sampling = TRUE]
                ELSE IF bucket.sampling /\ bucket.last_window_count < sampler.threshold
                  THEN [bucket EXCEPT !.sampling = FALSE,
                                      !.reservoir_index = 0,
                                      !.uninit = @ \ {"reservoir_index"}]
                  ELSE bucket
    IN  [b1 EXCEPT !.last_window_count = 0]

\* Variant: restarts the window count only when the sampling flag is decided.
sampler_update_callback_keep_count(bucket) ==
    IF bucket.last_window_count > sampler.threshold
      THEN [bucket EXCEPT !.sampling = TRUE, !.last_window_count = 0]
      ELSE IF bucket.sampling /\ bucket.last_window_count <= sampler.threshold
        THEN [bucket EXCEPT !.sampling = FALSE,
                            !.reservoir_index = 0,
                            !.uninit = @ \ {"reservoir_index"},
                            !.last_window_count = 0]
        ELSE bucket

sampler_update_callback(bucket) ==
    LET b1 == IF bucket.last_window_count > sampler.threshold
                THEN [bucket EXCEPT !.sampling = TRUE]
                ELSE IF bucket.sampling /\ bucket.last_window_count <= sampler.threshold
                  THEN [bucket EXCEPT !.sampling = FALSE,
                                      !.reservoir_index = 0,
                                      !.uninit = @ \ {"reservoir_index"}]
                  ELSE bucket
    IN  [b1 EXCEPT !.last_window_count = 0]

\* ------------------------------------------------------------------- expiry

HASHMAP_ITER_CONTINUE == "HASHMAP_ITER_CONTINUE"
HASHMAP_ITER_DELETE == "HASHMAP_ITER_DELETE"

\* Variant: a bucket as old as the ttl is deleted too.
expiry_callback_inclusive(bucket, ttl) ==
    IF bucket.sampling
      THEN HASHMAP_ITER_CONTINUE
      ELSE IF (now - bucket.last_modified_at) >= ttl
        THEN HASHMAP_ITER_DELETE
        ELSE HASHMAP_ITER_CONTINUE

expiry_callback(bucket, ttl) ==
    IF bucket.sampling
      THEN HASHMAP_ITER_CONTINUE
      ELSE IF (now - bucket.last_modified_at) > ttl
        THEN HASHMAP_ITER_DELETE
        ELSE HASHMAP_ITER_CONTINUE

\* -------------------------------------------------------------------- flush

\* What snprintf returns for the three formats of sampler_flush_callback.
CounterLineLen(key, avg, rate) == strlen(key) + 1 + GLen(avg) + 3 + GLen(rate) + 1
GaugeLineLen(key, avg) == strlen(key) + 1 + GLen(avg) + 3
TimerLineLen(key, v, rate) == strlen(key) + 1 + GLen(v) + 4 + GLen(rate) + 1

check_sampler_snprintf(ret, bufsz) == ret < 0 \/ ret >= bufsz

\* One callback invocation: the line's value, its unit and its "@" rate
\* (NAN where the format has none).
Line(key, v, unit, rate) == [key |-> key, value |-> v, unit |-> unit, rate |-> rate]

\* A step of the callback: the bucket so far, the lines given to cb so far,
\* and whether a "goto exit" was taken.
Step(bucket, lines, exit) == [bucket |-> bucket, lines |-> lines, exit |-> exit]

\* Variant: the rate is taken from the window count, not from count.
FlushCounter_window_rate(key, bucket) ==
    LET avg == Num(bucket.sum[2], bucket.sum[3] * bucket.count)
        rate == Num(1, bucket.last_window_count)
    IN  IF check_sampler_snprintf(CounterLineLen(key, avg, rate), MAX_UDP_LENGTH)
          THEN Step(bucket, <<>>, TRUE)
          ELSE Step(bucket, <<Line(key, avg, "c", rate)>>, FALSE)

FlushCounter(key, bucket) ==
    LET avg == Num(bucket.sum[2], bucket.sum[3] * bucket.count)
        rate == Num(1, bucket.count)
    IN  IF check_sampler_snprintf(CounterLineLen(key, avg, rate), MAX_UDP_LENGTH)
          THEN Step(bucket, <<>>, TRUE)
          ELSE Step(bucket, <<Line(key, avg, "c", rate)>>, FALSE)

FlushGauge(key, bucket) ==
    LET avg == Num(bucket.sum[2], bucket.sum[3] * bucket.count)
    IN  IF check_sampler_snprintf(GaugeLineLen(key, avg), MAX_UDP_LENGTH)
          THEN Step(bucket, <<>>, TRUE)
          ELSE Step(bucket, <<Line(key, avg, "g", NAN)>>, FALSE)

FlushUpper(key, st) ==
    IF ~st.exit /\ flush_upper_lower /\ DGt(st.bucket.upper, DBL_MIN)
      THEN IF check_sampler_snprintf(
                TimerLineLen(key, st.bucket.upper, st.bucket.upper_sample_rate),
                MAX_UDP_LENGTH)
             THEN Step(st.bucket, st.lines, TRUE)
             ELSE Step([st.bucket EXCEPT !.upper = DBL_MIN],
                       Append(st.lines, Line(key, st.bucket.upper, "ms",
                                             st.bucket.upper_sample_rate)),
                       FALSE)
      ELSE st

FlushLower(key, st) ==
    IF ~st.exit /\ flush_upper_lower /\ DLt(st.bucket.lower, DBL_MAX)
      THEN IF check_sampler_snprintf(
                TimerLineLen(key, st.bucket.lower, st.bucket.lower_sample_rate),
                MAX_UDP_LENGTH)
             THEN Step(st.bucket, st.lines, TRUE)
             ELSE Step([st.bucket EXCEPT !.lower = DBL_MAX],
                       Append(st.lines, Line(key, st.bucket.lower, "ms",
                                             st.bucket.lower_sample_rate)),
                       FALSE)
      ELSE st

\* Variant: the slots are counted by the fill index, not by their contents.
NumSamples_index(bucket) == bucket.reservoir_index

\* The number of non-NAN slots among reservoir[0 .. threshold-1].
NumSamples(bucket) ==
    Cardinality({j \in 1..sampler.threshold : ~isnan(bucket.reservoir[j])})

\* The loop "for (j = 0; j < threshold; j++)" that emits the reservoir, from
\* slot j on (slot j of the source is reservoir[j + 1] here).
RECURSIVE FlushReservoir(_, _, _, _)
FlushReservoir(key, st, sample_rate, j) ==
    IF st.exit \/ j >= sampler.threshold
      THEN st
      ELSE IF isnan(st.bucket.reservoir[j + 1])
        THEN FlushReservoir(key, st, sample_rate, j + 1)
        ELSE IF check_sampler_snprintf(
                    TimerLineLen(key, st.bucket.reservoir[j + 1], sample_rate),
                    MAX_UDP_LENGTH)
          THEN Step(st.bucket, st.lines, TRUE)
          ELSE FlushReservoir(
                 key,
                 Step([st.bucket EXCEPT !.reservoir[j + 1] = NAN],
                      Append(st.lines, Line(key, st.bucket.reservoir[j + 1], "ms",
                                            sample_rate)),
                      FALSE),
                 sample_rate, j + 1)

FlushTimer(key, bucket) ==
    LET s2 == FlushLower(key, FlushUpper(key, Step(bucket, <<>>, FALSE)))
        sample_rate == Num(NumSamples(s2.bucket), bucket.count)
    IN  FlushReservoir(key, s2, sample_rate, 0)

\* Variant: a bucket whose line does not fit is dropped from the map.
sampler_flush_callback_delete(key, bucket) ==
    IF ~bucket.sampling \/ bucket.count = 0
      THEN [bucket |-> sampler_update_callback(bucket), lines |-> <<>>,
            ret |-> HASHMAP_ITER_CONTINUE]
      ELSE
        LET st == CASE bucket.type = COUNTER -> FlushCounter(key, bucket)
                    [] bucket.type = GAUGE -> FlushGauge(key, bucket)
                    [] bucket.type = TIMER -> FlushTimer(key, bucket)
                    [] OTHER -> Step(bucket, <<>>, FALSE)
            b1 == IF st.exit THEN st.bucket
                             ELSE [st.bucket EXCEPT !.count = 0, !.sum = D(0)]
        IN  [bucket |-> sampler_update_callback(b1), lines |-> st.lines,
             ret |-> IF st.exit THEN HASHMAP_ITER_DELETE
                                ELSE HASHMAP_ITER_CONTINUE]

\* Variant: a bucket that is skipped is left out of the window rollover too.
sampler_flush_callback_no_rollover(key, bucket) ==
    IF ~bucket.sampling \/ bucket.count = 0
      THEN [bucket |-> bucket, lines |-> <<>>, ret |-> HASHMAP_ITER_CONTINUE]
      ELSE
        LET st == CASE bucket.type = COUNTER -> FlushCounter(key, bucket)
                    [] bucket.type = GAUGE -> FlushGauge(key, bucket)
                    [] bucket.type = TIMER -> FlushTimer(key, bucket)
                    [] OTHER -> Step(bucket, <<>>, FALSE)
            b1 == IF st.exit THEN st.bucket
                             ELSE [st.bucket EXCEPT !.count = 0, !.sum = D(0)]
        IN  [bucket |-> sampler_update_callback(b1), lines |-> st.lines,
             ret |-> HASHMAP_ITER_CONTINUE]

\* Variant: count and sum are reset on the way out of an overflow too.
sampler_flush_callback_reset_on_exit(key, bucket) ==
    IF ~bucket.sampling \/ bucket.count = 0
      THEN [bucket |-> sampler_update_callback(bucket), lines |-> <<>>,
            ret |-> HASHMAP_ITER_CONTINUE]
      ELSE
        LET st == CASE bucket.type = COUNTER -> FlushCounter(key, bucket)
                    [] bucket.type = GAUGE -> FlushGauge(key, bucket)
                    [] bucket.type = TIMER -> FlushTimer(key, bucket)
                    [] OTHER -> Step(bucket, <<>>, FALSE)
            b1 == [st.bucket EXCEPT !.count = 0, !.sum = D(0)]
        IN  [bucket |-> sampler_update_callback(b1), lines |-> st.lines,
             ret |-> HASHMAP_ITER_CONTINUE]

\* The per-bucket hashmap_iter callback of sampler_flush: the bucket it
\* leaves, the lines it hands to the flush callback, and what it returns.
sampler_flush_callback(key, bucket) ==
    IF ~bucket.sampling \/ bucket.count = 0
      THEN [bucket |-> sampler_update_callback(bucket), lines |-> <<>>,
            ret |-> HASHMAP_ITER_CONTINUE]
      ELSE
        LET st == CASE bucket.type = COUNTER -> FlushCounter(key, bucket)
                    [] bucket.type = GAUGE -> FlushGauge(key, bucket)
                    [] bucket.type = TIMER -> FlushTimer(key, bucket)
                    [] OTHER -> Step(bucket, <<>>, FALSE)
            b1 == IF st.exit THEN st.bucket
                             ELSE [st.bucket EXCEPT !.count = 0, !.sum = D(0)]
        IN  [bucket |-> sampler_update_callback(b1), lines |-> st.lines,
             ret |-> HASHMAP_ITER_CONTINUE]

\* ---------------------------------------------------------------- consider_*

hashmap_size(m) == Cardinality(DOMAIN m)

hashmap_put(m, name, bucket) ==
    [k \in DOMAIN m \cup {name} |-> IF k = name THEN bucket ELSE m[k]]

\* Variant: flags only above the cap.
flag_incoming_metric_strict == hashmap_size(map) > sampler.cardinality

flag_incoming_metric == hashmap_size(map) >= sampler.cardinality

\* What a consider_* call leaves: the map, the return value, and whether it
\* wrote a reservoir slot outside the bucket's allocation.
Result(m, ret, oob) == [map |-> m, ret |-> ret, oob |-> oob]

\* "count = 1 * (1.0 / presampling_value)" when 0 < presampling_value < 1.
Presampled(parsed) ==
    DGt(parsed.presampling_value, D(0)) /\ DLt(parsed.presampling_value, D(1))

CountIncrement(parsed) ==
    IF Presampled(parsed) THEN DInv(parsed.presampling_value) ELSE D(1)

\* "bucket->count += count": uint64_t += double.
AddCount(count, inc) == ToUint64(DAdd(D(count), inc))

\* Existing bucket: count the event, stamp it, and trip the circuit breaker.
CountEvent(bucket) ==
    LET b1 == [bucket EXCEPT !.last_window_count = @ + 1, !.last_modified_at = now]
    IN  IF ~b1.sampling /\ b1.last_window_count > sampler.threshold
          THEN [b1 EXCEPT !.sampling = TRUE]
          ELSE b1

NewCounterBucket(parsed) ==
    [sampling |-> FALSE, last_window_count |-> 1, last_modified_at |-> now,
     sum |-> D(0), count |-> 0, type |-> parsed.type,
     reservoir_index |-> 0, upper |-> DBL_MIN, lower |-> DBL_MAX,
     upper_sample_rate |-> NAN, lower_sample_rate |-> NAN,
     reservoir |-> <<>>, uninit |-> NonTimerUninit]

sampler_consider_counter(name, parsed, malloc_ok) ==
    IF parsed.type # COUNTER THEN Result(map, NOT_SAMPLING, FALSE)
    ELSE IF name \notin DOMAIN map
      THEN IF flag_incoming_metric THEN Result(map, FLAGGED, FALSE)
           ELSE IF ~malloc_ok THEN Result(map, FLAGGED, FALSE)
           ELSE Result(hashmap_put(map, name, NewCounterBucket(parsed)),
                       NOT_SAMPLING, FALSE)
      ELSE
        LET b == CountEvent(map[name])
            count == CountIncrement(parsed)
            value == IF Presampled(parsed)
                       THEN DMul(parsed.value, DInv(parsed.presampling_value))
                       ELSE parsed.value
        IN  IF b.sampling
              THEN Result([map EXCEPT ![name] =
                             [b EXCEPT !.sum = DAdd(@, value),
                                       !.count = AddCount(@, count)]],
                          SAMPLING, FALSE)
              ELSE Result([map EXCEPT ![name] = b], NOT_SAMPLING, FALSE)

\* Variant: the creating event counts towards the window, as for a counter.
NewGaugeBucket_counted(parsed) ==
    [sampling |-> FALSE, last_window_count |-> 1, last_modified_at |-> now,
     sum |-> D(0), count |-> 0, type |-> parsed.type,
     reservoir_index |-> 0, upper |-> DBL_MIN, lower |-> DBL_MAX,
     upper_sample_rate |-> NAN, lower_sample_rate |-> NAN,
     reservoir |-> <<>>, uninit |-> NonTimerUninit]

NewGaugeBucket(parsed) ==
    [sampling |-> FALSE, last_window_count |-> 0, last_modified_at |-> now,
     sum |-> D(0), count |-> 0, type |-> parsed.type,
     reservoir_index |-> 0, upper |-> DBL_MIN, lower |-> DBL_MAX,
     upper_sample_rate |-> NAN, lower_sample_rate |-> NAN,
     reservoir |-> <<>>, uninit |-> NonTimerUninit]

sampler_consider_gauge(name, parsed, malloc_ok) ==
    IF parsed.type # GAUGE THEN Result(map, NOT_SAMPLING, FALSE)
    ELSE IF name \notin DOMAIN map /\ flag_incoming_metric
      THEN Result(map, FLAGGED, FALSE)
    ELSE IF name \notin DOMAIN map /\ ~malloc_ok
      THEN Result(map, FLAGGED, FALSE)
    ELSE
      LET m1 == IF name \notin DOMAIN map
                  THEN hashmap_put(map, name, NewGaugeBucket(parsed))
                  ELSE map
          b1 == [m1[name] EXCEPT !.last_modified_at = now]
      IN  IF sampler.threshold <= 0
            THEN Result([m1 EXCEPT ![name] = b1], NOT_SAMPLING, FALSE)
            ELSE
              LET b == CountEvent(b1)
              IN  IF b.sampling
                    THEN Result([m1 EXCEPT ![name] =
                                   [b EXCEPT !.sum = DAdd(@, parsed.value),
                                             !.count = AddCount(@, D(1))]],
                                SAMPLING, FALSE)
                    ELSE Result([m1 EXCEPT ![name] = b], NOT_SAMPLING, FALSE)

\* Variant: the creating event does not count towards the window, as for a gauge.
NewTimerBucket_uncounted(parsed) ==
    [sampling |-> FALSE, last_window_count |-> 0, last_modified_at |-> now,
     sum |-> D(0), count |-> 0, type |-> parsed.type,
     reservoir_index |-> 0, upper |-> DBL_MIN, lower |-> DBL_MAX,
     upper_sample_rate |-> NAN, lower_sample_rate |-> NAN,
     reservoir |-> [j \in 1..sampler.threshold |-> NAN],
     uninit |-> {"upper_sample_rate", "lower_sample_rate"}]

NewTimerBucket(parsed) ==
    [sampling |-> FALSE, last_window_count |-> 1, last_modified_at |-> now,
     sum |-> D(0), count |-> 0, type |-> parsed.type,
     reservoir_index |-> 0, upper |-> DBL_MIN, lower |-> DBL_MAX,
     upper_sample_rate |-> NAN, lower_sample_rate |-> NAN,
     reservoir |-> [j \in 1..sampler.threshold |-> NAN],
     uninit |-> {"upper_sample_rate", "lower_sample_rate"}]

\* The indeterminate fields consider_timer reads take the values "garbage".
Materialize(bucket, garbage) ==
    [bucket EXCEPT
       !.upper = IF "upper" \in bucket.uninit THEN garbage.upper ELSE @,
       !.lower = IF "lower" \in bucket.uninit THEN garbage.lower ELSE @,
       !.reservoir_index =
           IF "reservoir_index" \in bucket.uninit THEN garbage.reservoir_index ELSE @,
       !.uninit = @ \ {"upper", "lower", "reservoir_index"}]

\* step.value is the candidate for the reservoir; step.done says the source
\* has already returned SAMPLER_SAMPLING.
TimerStep(bucket, value, done) == [bucket |-> bucket, value |-> value, done |-> done]

UpdateUpper(bucket, parsed) ==
    IF DGt(parsed.value, bucket.upper)
      THEN LET b1 == [bucket EXCEPT
                        !.upper_sample_rate = parsed.presampling_value,
                        !.uninit = @ \ {"upper_sample_rate"}]
           IN  IF bucket.upper # DBL_MIN
                 THEN TimerStep([b1 EXCEPT !.upper = parsed.value], bucket.upper, FALSE)
                 ELSE TimerStep([b1 EXCEPT !.upper = parsed.value], parsed.value, TRUE)
      ELSE TimerStep(bucket, parsed.value, FALSE)

UpdateLower(st, parsed) ==
    IF ~st.done /\ DLt(st.value, st.bucket.lower)
      THEN LET b1 == [st.bucket EXCEPT
                        !.lower_sample_rate = parsed.presampling_value,
                        !.uninit = @ \ {"lower_sample_rate"}]
           IN  IF st.bucket.lower # DBL_MAX
                 THEN TimerStep([b1 EXCEPT !.lower = st.value], st.bucket.lower, FALSE)
                 ELSE TimerStep([b1 EXCEPT !.lower = st.value], st.value, TRUE)
      ELSE st

\* "bucket->reservoir[slot] = value" (slot counted from 0): a slot outside
\* the allocation leaves the bucket's own fields alone and overruns the heap.
WriteSlot(bucket, slot, value) ==
    IF slot >= 0 /\ slot < Len(bucket.reservoir)
      THEN [bucket |-> [bucket EXCEPT !.reservoir[slot + 1] = value], oob |-> FALSE]
      ELSE [bucket |-> bucket, oob |-> TRUE]

\* Variant: the drawn slot is accepted up to and including the threshold.
UpdateReservoir_inclusive(bucket, value, i) ==
    IF bucket.reservoir_index < sampler.threshold
      THEN LET w == WriteSlot(bucket, bucket.reservoir_index, value)
           IN  [bucket |-> [w.bucket EXCEPT !.reservoir_index = @ + 1], oob |-> w.oob]
      ELSE LET k == i % bucket.last_window_count
           IN  IF k <= sampler.threshold
                 THEN WriteSlot(bucket, k, value)
                 ELSE [bucket |-> bucket, oob |-> FALSE]

\* The reservoir step; i is the number lrand48_r draws.
UpdateReservoir(bucket, value, i) ==
    IF bucket.reservoir_index < sampler.threshold
      THEN LET w == WriteSlot(bucket, bucket.reservoir_index, value)
           IN  [bucket |-> [w.bucket EXCEPT !.reservoir_index = @ + 1], oob |-> w.oob]
      ELSE LET k == i % bucket.last_window_count
           IN  IF k < sampler.threshold
                 THEN WriteSlot(bucket, k, value)
                 ELSE [bucket |-> bucket, oob |-> FALSE]

sampler_consider_timer(name, parsed, malloc_ok, i, garbage) ==
    IF parsed.type # TIMER THEN Result(map, NOT_SAMPLING, FALSE)
    ELSE IF name \notin DOMAIN map
      THEN IF flag_incoming_metric THEN Result(map, FLAGGED, FALSE)
           ELSE IF ~malloc_ok THEN Result(map, FLAGGED, FALSE)
           ELSE Result(hashmap_put(map, name, NewTimerBucket(parsed)),
                       NOT_SAMPLING, FALSE)
      ELSE
        LET b == CountEvent(map[name])
        IN  IF ~b.sampling
              THEN Result([map EXCEPT ![name] = b], NOT_SAMPLING, FALSE)
              ELSE
                LET st == UpdateLower(UpdateUpper(Materialize(b, garbage), parsed),
                                      parsed)
                    w == UpdateReservoir(st.bucket, st.value, i)
                IN  IF st.done
                      THEN Result([map EXCEPT ![name] = st.bucket], SAMPLING, FALSE)
                      ELSE Result([map EXCEPT ![name] =
                                     [w.bucket EXCEPT
                                        !.sum = DAdd(@, st.value),
                                        !.count = AddCount(@, CountIncrement(parsed))]],
                                  SAMPLING, w.oob)

\* Variant: the stored type is not compared with the queried one.
sampler_is_sampling_any_type(name, type) ==
    IF name \notin DOMAIN map THEN NOT_SAMPLING
    ELSE IF map[name].sampling THEN SAMPLING
    ELSE NOT_SAMPLING

sampler_is_sampling(name, type) ==
    IF name \notin DOMAIN map THEN NOT_SAMPLING
    ELSE IF map[name].sampling /\ map[name].type = type THEN SAMPLING
    ELSE NOT_SAMPLING

\* ------------------------------------------------------------------ actions

Call(op, key, type, ret) == [op |-> op, key |-> key, type |-> type, ret |-> ret]

\* One consider_* call that reached the bucket code.
Event(parsed, ret) ==
    [type |-> parsed.type, value |-> parsed.value,
     presampling_value |-> parsed.presampling_value, ret |-> ret]

\* The state after a consider_* call "op" for "name" that left "res"; at most
\* "limit" calls per bucket are explored between two rollovers.  The caller
\* dispatches a parsed line on its type.
ConsiderCall(op, name, parsed, res, limit, maxcount) ==
    /\ parsed.type = op
    /\ name \in DOMAIN map => Len(window_events[name]) < limit
    /\ name \in DOMAIN res.map => res.map[name].count <= maxcount
    /\ map' = res.map
    /\ heap_overflow' = (heap_overflow \/ res.oob)
    /\ call' = Call(op, name, parsed.type, res.ret)
    /\ out' = NoLines
    /\ closed_window' = NoWindow
    /\ window_events' =
         IF name \in DOMAIN res.map
           THEN [k \in DOMAIN res.map |->
                   IF k = name
                     THEN Append(IF name \in DOMAIN map THEN window_events[name]
                                                        ELSE <<>>,
                                 Event(parsed, res.ret))
                     ELSE window_events[k]]
           ELSE window_events
    /\ created_in_window' =
         IF name \notin DOMAIN map /\ name \in DOMAIN res.map
           THEN created_in_window \cup {name}
           ELSE created_in_window
    /\ UNCHANGED <<sampler, now>>
    /\ UNCHANGED <<elide_vars, validate_vars>>

\* A consider_* call made while every name keeps its metric type.
Consider(op, name, parsed, res, limit, maxcount) ==
    /\ name \in DOMAIN map => map[name].type = op
    /\ ConsiderCall(op, name, parsed, res, limit, maxcount)

ConsiderCounter(name, parsed, malloc_ok, limit, maxcount) ==
    Consider(COUNTER, name, parsed,
             sampler_consider_counter(name, parsed, malloc_ok), limit, maxcount)

ConsiderGauge(name, parsed, malloc_ok, limit, maxcount) ==
    Consider(GAUGE, name, parsed,
             sampler_consider_gauge(name, parsed, malloc_ok), limit, maxcount)

ConsiderTimer(name, parsed, malloc_ok, i, garbage, limit, maxcount) ==
    Consider(TIMER, name, parsed,
             sampler_consider_timer(name, parsed, malloc_ok, i, garbage), limit,
             maxcount)

\* hashmap_iter visits every bucket and keeps those for which the callback
\* returns HASHMAP_ITER_CONTINUE.
sampler_flush ==
    /\ LET visit == [k \in DOMAIN map |-> sampler_flush_callback(k, map[k])]
           kept == {k \in DOMAIN map : visit[k].ret = HASHMAP_ITER_CONTINUE}
       IN  /\ map' = [k \in kept |-> visit[k].bucket]
           /\ out' = [k \in DOMAIN map |-> visit[k].lines]
           /\ window_events' = [k \in kept |-> <<>>]
    /\ call' = Call("sampler_flush", "", "", "")
    /\ closed_window' = [events |-> window_events, created |-> created_in_window]
    /\ created_in_window' = {}
    /\ UNCHANGED <<sampler, now, heap_overflow>>
    /\ UNCHANGED <<elide_vars, validate_vars>>

sampler_update_flags ==
    /\ map' = [k \in DOMAIN map |-> sampler_update_callback(map[k])]
    /\ out' = NoLines
    /\ closed_window' = NoWindow
    /\ call' = Call("sampler_update_flags", "", "", "")
    /\ window_events' = [k \in DOMAIN map |-> <<>>]
    /\ created_in_window' = {}
    /\ UNCHANGED <<sampler, now, heap_overflow>>
    /\ UNCHANGED <<elide_vars, validate_vars>>

\* The expiry timer is started only when hm_ttl # -1; the sweep reads the
\* coarse clock once per bucket, all within the same second.
expiry_callback_handler ==
    /\ sampler.hm_ttl # 0 - 1
    /\ LET kept == {k \in DOMAIN map :
                      expiry_callback(map[k], sampler.hm_ttl) = HASHMAP_ITER_CONTINUE}
       IN  /\ map' = [k \in kept |-> map[k]]
           /\ window_events' = [k \in kept |-> window_events[k]]
           /\ created_in_window' = created_in_window \cap kept
    /\ out' = NoLines
    /\ closed_window' = [events |-> window_events, created |-> created_in_window]
    /\ call' = Call("expiry_callback_handler", "", "", "")
    /\ UNCHANGED <<sampler, now, heap_overflow>>
    /\ UNCHANGED <<elide_vars, validate_vars>>

IsSampling(name, type) ==
    /\ call' = Call("sampler_is_sampling", name, type, sampler_is_sampling(name, type))
    /\ out' = NoLines
    /\ closed_window' = NoWindow
    /\ UNCHANGED <<sampler, map, now, heap_overflow, window_events, created_in_window>>
    /\ UNCHANGED <<elide_vars, validate_vars>>

\* A second passes on the coarse clock, which runs up to "limit".
TickTo(limit) ==
    /\ now < limit
    /\ now' = now + 1
    /\ call' = Call("tick", "", "", "")
    /\ out' = NoLines
    /\ closed_window' = NoWindow
    /\ UNCHANGED <<sampler, map, heap_overflow, window_events, created_in_window>>
    /\ UNCHANGED <<elide_vars, validate_vars>>

Tick == TickTo(MaxTime)

Garbage ==
    [upper : UninitUpper, lower : UninitLower, reservoir_index : UninitIndex]

\* The inputs of a consider_* call that can make a difference in the state
\* at hand: malloc is only called for a new key under the cap, lrand48_r
\* only matters through its residue modulo the incremented window count,
\* and garbage is only read from a bucket that has indeterminate fields.
MallocOutcomes(name) ==
    IF name \notin DOMAIN map /\ ~flag_incoming_metric THEN BOOLEAN ELSE {TRUE}

Draws(name) ==
    IF name \in DOMAIN map /\ map[name].type = TIMER
      THEN 0..map[name].last_window_count
      ELSE {0}

GarbageFor(name) ==
    IF name \in DOMAIN map /\ map[name].type # TIMER
      THEN Garbage
      ELSE {[upper |-> DBL_MIN, lower |-> DBL_MAX, reservoir_index |-> 0]}

\* The sampler with two metric names, the clock and the expiry sweep.
Next ==
    \/ \E name \in Keys, v \in Values, p \in Rates :
       \E malloc_ok \in MallocOutcomes(name) :
         ConsiderCounter(name, Parsed(COUNTER, v, p), malloc_ok,
                         MaxWindowEvents, MaxCount)
    \/ \E name \in Keys, v \in Values, p \in Rates :
       \E malloc_ok \in MallocOutcomes(name) :
         ConsiderGauge(name, Parsed(GAUGE, v, p), malloc_ok,
                       MaxWindowEvents, MaxCount)
    \/ \E name \in Keys, v \in Values, p \in Rates :
       \E malloc_ok \in MallocOutcomes(name), i \in Draws(name),
          garbage \in GarbageFor(name) :
         ConsiderTimer(name, Parsed(TIMER, v, p), malloc_ok, i, garbage,
                       MaxWindowEvents, MaxCount)
    \/ sampler_flush
    \/ sampler_update_flags
    \/ expiry_callback_handler
    \/ Tick

Spec == Init /\ [][Next]_vars

\* ------------------------------------------------------ scenario: one name

\* One metric name followed through longer windows, with the values of the
\* documented scenarios; expiry is disabled (hm_ttl = -1).
ScenarioConfigs ==
    [threshold : 0..MaxScenarioThreshold,
     cardinality : {1},
     timer_flush_min_max : BOOLEAN,
     hm_ttl : {0 - 1}]

CounterValues == {D(10)}
GaugeValues == {D(5), D(7), D(9)}
ScenarioRates == {D(1), Num(1, 2)}

InitScenario == \E config \in ScenarioConfigs : sampler_init(config)

NextScenario ==
    \/ \E v \in CounterValues, p \in ScenarioRates :
       \E malloc_ok \in MallocOutcomes(ShortKey) :
         ConsiderCounter(ShortKey, Parsed(COUNTER, v, p), malloc_ok,
                         MaxScenarioEvents, MaxScenarioCount)
    \/ \E v \in GaugeValues, p \in ScenarioRates :
       \E malloc_ok \in MallocOutcomes(ShortKey) :
         ConsiderGauge(ShortKey, Parsed(GAUGE, v, p), malloc_ok,
                       MaxScenarioEvents, MaxScenarioCount)
    \/ sampler_flush

SpecScenario == InitScenario /\ [][NextScenario]_vars

\* -------------------------------------------------------- timers: one name

TimerValues == {D(0 - 1), D(1), D(2)}
TimerRates == {D(1)}

NextTimer ==
    \/ \E v \in TimerValues, p \in TimerRates :
       \E malloc_ok \in MallocOutcomes(ShortKey), i \in Draws(ShortKey),
          garbage \in GarbageFor(ShortKey) :
         ConsiderTimer(ShortKey, Parsed(TIMER, v, p), malloc_ok, i, garbage,
                       MaxScenarioEvents, MaxScenarioCount)
    \/ sampler_flush

SpecTimer == InitScenario /\ [][NextTimer]_vars

\* ------------------------------------- timers: one name, values 1 to 5

TimerScenarioConfigs ==
    [threshold : 1..MaxScenarioThreshold,
     cardinality : {1},
     timer_flush_min_max : BOOLEAN,
     hm_ttl : {0 - 1}]

TimerScenarioValues == {D(1), D(2), D(3), D(4), D(5)}

InitTimerScenario == \E config \in TimerScenarioConfigs : sampler_init(config)

NextTimerScenario ==
    \/ \E v \in TimerScenarioValues :
       \E malloc_ok \in MallocOutcomes(ShortKey), i \in Draws(ShortKey),
          garbage \in GarbageFor(ShortKey) :
         ConsiderTimer(ShortKey, Parsed(TIMER, v, D(1)), malloc_ok, i, garbage,
                       MaxTimerScenarioEvents, MaxTimerScenarioCount)
    \/ sampler_flush

SpecTimerScenario == InitTimerScenario /\ [][NextTimerScenario]_vars

\* --------------------------------- presampled counters and gauges: one name

PresamplingConfigs ==
    [threshold : 0..MaxThreshold,
     cardinality : {1},
     timer_flush_min_max : {FALSE},
     hm_ttl : {0 - 1}]

PresamplingRates == {D(1), Num(1, 2), Num(2, 5)}

InitPresampling == \E config \in PresamplingConfigs : sampler_init(config)

NextPresampling ==
    \/ \E v \in CounterValues, p \in PresamplingRates :
       \E malloc_ok \in MallocOutcomes(ShortKey) :
         ConsiderCounter(ShortKey, Parsed(COUNTER, v, p), malloc_ok,
                         MaxScenarioEvents, MaxScenarioCount)
    \/ \E v \in GaugeValues, p \in PresamplingRates :
       \E malloc_ok \in MallocOutcomes(ShortKey) :
         ConsiderGauge(ShortKey, Parsed(GAUGE, v, p), malloc_ok,
                       MaxScenarioEvents, MaxScenarioCount)
    \/ sampler_flush

SpecPresampling == InitPresampling /\ [][NextPresampling]_vars

\* ------------------------------------------------------- queries: two names

\* sampler_is_sampling asked between the other calls; expiry is disabled.
QueryConfigs ==
    [threshold : 0..MaxThreshold,
     cardinality : {MaxCardinality},
     timer_flush_min_max : {FALSE},
     hm_ttl : {0 - 1}]

InitQuery == \E config \in QueryConfigs : sampler_init(config)

NextQuery ==
    \/ \E name \in Keys, v \in Values, p \in Rates :
       \E malloc_ok \in MallocOutcomes(name) :
         ConsiderCounter(name, Parsed(COUNTER, v, p), malloc_ok,
                         MaxWindowEvents, MaxCount)
    \/ \E name \in Keys, v \in Values, p \in Rates :
       \E malloc_ok \in MallocOutcomes(name) :
         ConsiderGauge(name, Parsed(GAUGE, v, p), malloc_ok,
                       MaxWindowEvents, MaxCount)
    \/ \E name \in Keys, v \in Values, p \in Rates :
       \E malloc_ok \in MallocOutcomes(name), i \in Draws(name),
          garbage \in GarbageFor(name) :
         ConsiderTimer(name, Parsed(TIMER, v, p), malloc_ok, i, garbage,
                       MaxWindowEvents, MaxCount)
    \/ sampler_flush
    \/ \E name \in Keys, ty \in MetricTypes : IsSampling(name, ty)

SpecQuery == InitQuery /\ [][NextQuery]_vars

\* ------------------------- timers: one name whose lines fit or overflow

\* A timer whose lines fit the buffer for the value 1 (at the rates 1 and 0.5)
\* and overflow for the value 1000, with the clock and the expiry sweep.
OverflowConfigs ==
    [threshold : 1..MaxScenarioThreshold,
     cardinality : {1},
     timer_flush_min_max : BOOLEAN,
     hm_ttl : {0 - 1, 0}]

OverflowValues == {D(1), D(1000)}

InitOverflow == \E config \in OverflowConfigs : sampler_init(config)

NextOverflow ==
    \/ \E v \in OverflowValues, p \in Rates :
       \E malloc_ok \in MallocOutcomes(MidKey), i \in Draws(MidKey),
          garbage \in GarbageFor(MidKey) :
         ConsiderTimer(MidKey, Parsed(TIMER, v, p), malloc_ok, i, garbage,
                       MaxOverflowEvents, MaxOverflowCount)
    \/ sampler_flush
    \/ expiry_callback_handler
    \/ Tick

SpecOverflow == InitOverflow /\ [][NextOverflow]_vars

\* ------------------------------ one name that goes idle, expiry enabled

IdleConfigs ==
    [threshold : 0..MaxThreshold,
     cardinality : {1},
     timer_flush_min_max : BOOLEAN,
     hm_ttl : 0..MaxIdleTtl]

InitIdle == \E config \in IdleConfigs : sampler_init(config)

\* The clock of the model stops at MaxIdleTime: events arrive only while a
\* bucket stamped now can still outlive its ttl before the clock stops.
Arrival == now + sampler.hm_ttl < MaxIdleTime

IdleTick == TickTo(MaxIdleTime)

NextIdle ==
    \/ /\ Arrival
       /\ \E v \in Values, p \in Rates :
          \E malloc_ok \in MallocOutcomes(ShortKey) :
            ConsiderCounter(ShortKey, Parsed(COUNTER, v, p), malloc_ok,
                            MaxWindowEvents, MaxCount)
    \/ /\ Arrival
       /\ \E v \in Values, p \in Rates :
          \E malloc_ok \in MallocOutcomes(ShortKey) :
            ConsiderGauge(ShortKey, Parsed(GAUGE, v, p), malloc_ok,
                          MaxWindowEvents, MaxCount)
    \/ /\ Arrival
       /\ \E v \in Values, p \in Rates :
          \E malloc_ok \in MallocOutcomes(ShortKey), i \in Draws(ShortKey),
             garbage \in GarbageFor(ShortKey) :
            ConsiderTimer(ShortKey, Parsed(TIMER, v, p), malloc_ok, i, garbage,
                          MaxWindowEvents, MaxCount)
    \/ sampler_flush
    \/ expiry_callback_handler
    \/ IdleTick

\* sampler_flush would leave every variable as it is: it has just run, and
\* every bucket is out of sampling with an empty window, so that the callback
\* emits nothing and the rollover changes nothing.  This is
\* ~ENABLED <<sampler_flush>>_vars, written as a state predicate.
FlushIdle ==
    /\ call = Call("sampler_flush", "", "", "")
    /\ closed_window = [events |-> window_events, created |-> created_in_window]
    /\ created_in_window = {}
    /\ DOMAIN out = DOMAIN map
    /\ \A k \in DOMAIN map :
        /\ window_events[k] = <<>>
        /\ out[k] = <<>>
        /\ ~map[k].sampling
        /\ map[k].last_window_count = 0

\* WF_vars(sampler_flush), with its enabling condition written out.
FlushKeepsFiring == []<>FlushIdle \/ []<><<sampler_flush>>_vars

\* The flush timer of the caller and the expiry timer, which
\* expiry_callback_handler restarts every time it runs, keep firing, and the
\* clock keeps advancing.
SpecIdle ==
    /\ InitIdle
    /\ [][NextIdle]_vars
    /\ FlushKeepsFiring
    /\ WF_vars(expiry_callback_handler)
    /\ WF_vars(IdleTick)

\* ------------------------------------- one name sent with changing types

\* The same metric name arrives as a counter, as a timer and as a gauge: each
\* line is dispatched on its own type, whatever bucket the name already has.
MixedConfigs ==
    [threshold : 0..MaxThreshold,
     cardinality : {1},
     timer_flush_min_max : {FALSE},
     hm_ttl : {0 - 1}]

InitMixed == \E config \in MixedConfigs : sampler_init(config)

NextMixed ==
    \/ \E v \in Values, p \in Rates :
       \E malloc_ok \in MallocOutcomes(ShortKey) :
         ConsiderCall(COUNTER, ShortKey, Parsed(COUNTER, v, p),
                      sampler_consider_counter(ShortKey, Parsed(COUNTER, v, p),
                                               malloc_ok),
                      MaxWindowEvents, MaxCount)
    \/ \E v \in Values, p \in Rates :
       \E malloc_ok \in MallocOutcomes(ShortKey) :
         ConsiderCall(GAUGE, ShortKey, Parsed(GAUGE, v, p),
                      sampler_consider_gauge(ShortKey, Parsed(GAUGE, v, p),
                                             malloc_ok),
                      MaxWindowEvents, MaxCount)
    \/ \E v \in Values, p \in Rates :
       \E malloc_ok \in MallocOutcomes(ShortKey), i \in Draws(ShortKey),
          garbage \in GarbageFor(ShortKey) :
         ConsiderCall(TIMER, ShortKey, Parsed(TIMER, v, p),
                      sampler_consider_timer(ShortKey, Parsed(TIMER, v, p),
                                             malloc_ok, i, garbage),
                      MaxWindowEvents, MaxCount)
    \/ sampler_flush

SpecMixed == InitMixed /\ [][NextMixed]_vars

\* ==================================================================== elider

\* The sampler as sampler_init leaves it, never called.
SamplerUnused ==
    /\ sampler = [threshold |-> 0, cardinality |-> 0,
                  timer_flush_min_max |-> FALSE, hm_ttl |-> 0 - 1]
    /\ map = [k \in {} |-> <<>>]
    /\ now = 0
    /\ heap_overflow = FALSE
    /\ call = [op |-> "sampler_init", key |-> "", type |-> "", ret |-> ""]
    /\ out = NoLines
    /\ closed_window = NoWindow
    /\ window_events = [k \in {} |-> <<>>]
    /\ created_in_window = {}

ElideKeys == {"k1", "k2"}

\* struct timeval; microseconds are 0 or 1 to tell whole seconds apart.
Timevals == [tv_sec : 0..MaxElideTime, tv_usec : {0, 1}]

ElideConfigs == [skip : 0..MaxSkip, gc_ttl : {0 - 1} \cup (0..MaxGcTtl)]

elide_init(config) ==
    /\ elide = [skip |-> config.skip, gc_ttl |-> config.gc_ttl,
                elide_map |-> [k \in {} |-> <<>>]]
    /\ elide_call = [NoElideCall EXCEPT !.op = "elide_init"]
    /\ marks = [k \in {} |-> 0]

\* calloc'd elide_value_t.
NewElideValue == [generations |-> 0, last_seen |-> [tv_sec |-> 0, tv_usec |-> 0]]

ElideResult(m, ret) == [elide_map |-> m, ret |-> ret]

\* Variant: returns the generation count after the increment.
elide_mark_preincrement(key, tv) ==
    LET m == elide.elide_map
        v0 == IF key \notin DOMAIN m
                THEN [NewElideValue EXCEPT !.generations = elide.skip]
                ELSE m[key]
        v1 == [v0 EXCEPT !.last_seen = tv]
    IN  ElideResult(hashmap_put(m, key, [v1 EXCEPT !.generations = @ + 1]),
                    v1.generations + 1)

\* "return v->generations++" (generations is an int; MaxMarks keeps it far
\* from INT_MAX).
elide_mark(key, tv) ==
    LET m == elide.elide_map
        v0 == IF key \notin DOMAIN m
                THEN [NewElideValue EXCEPT !.generations = elide.skip]
                ELSE m[key]
        v1 == [v0 EXCEPT !.last_seen = tv]
    IN  ElideResult(hashmap_put(m, key, [v1 EXCEPT !.generations = @ + 1]),
                    v1.generations)

\* Variant: "sets generations to 0", as the header's comment says.
elide_unmark_zero(key, tv) ==
    LET m == elide.elide_map
        v0 == IF key \notin DOMAIN m THEN NewElideValue ELSE m[key]
    IN  ElideResult(hashmap_put(m, key, [v0 EXCEPT !.last_seen = tv,
                                                   !.generations = 0]),
                    elide.skip)

elide_unmark(key, tv) ==
    LET m == elide.elide_map
        v0 == IF key \notin DOMAIN m THEN NewElideValue ELSE m[key]
    IN  ElideResult(hashmap_put(m, key, [v0 EXCEPT !.last_seen = tv,
                                                   !.generations = elide.skip]),
                    elide.skip)

\* Variant: an entry last seen in the cutoff's second is kept.
elide_gc_cb_inclusive(cutoff, oldvalue) ==
    IF oldvalue.last_seen.tv_sec >= cutoff.tv_sec THEN 0 ELSE 1

\* 0: keep the entry, 1: remove it.
elide_gc_cb(cutoff, oldvalue) ==
    IF oldvalue.last_seen.tv_sec > cutoff.tv_sec THEN 0 ELSE 1

\* hashmap_filter removes the entries for which the callback returns nonzero.
hashmap_filter(m, cutoff) ==
    [k \in {j \in DOMAIN m : elide_gc_cb(cutoff, m[j]) = 0} |-> m[k]]

\* "logged": the map sizes the gc handler logs before and after its pass.
ElideCall(op, key, tv, ret) ==
    [op |-> op, key |-> key, now |-> tv, ret |-> ret, logged |-> <<0, 0>>]

ElideMark(key, tv) ==
    /\ key \in DOMAIN elide.elide_map =>
           elide.elide_map[key].generations < elide.skip + MaxMarks
    /\ LET r == elide_mark(key, tv)
       IN  /\ elide' = [elide EXCEPT !.elide_map = r.elide_map]
           /\ elide_call' = ElideCall("elide_mark", key, tv, r.ret)
    /\ marks' = [k \in DOMAIN marks \cup {key} |->
                   IF k = key
                     THEN (IF key \in DOMAIN marks THEN marks[key] ELSE 0) + 1
                     ELSE marks[k]]
    /\ UNCHANGED <<sampler_vars, validate_vars>>

ElideUnmark(key, tv) ==
    /\ LET r == elide_unmark(key, tv)
       IN  /\ elide' = [elide EXCEPT !.elide_map = r.elide_map]
           /\ elide_call' = ElideCall("elide_unmark", key, tv, r.ret)
    /\ marks' = [k \in DOMAIN marks \cup {key} |->
                   IF k = key THEN 0 ELSE marks[k]]
    /\ UNCHANGED <<sampler_vars, validate_vars>>

\* The gc timer is started only when gc_ttl # -1; tv is what gettimeofday
\* gives the handler, ret the cutoff's second.
elide_gc_callback_handler(tv) ==
    /\ elide.gc_ttl # 0 - 1
    /\ LET cutoff == [tv EXCEPT !.tv_sec = @ - elide.gc_ttl]
           m == hashmap_filter(elide.elide_map, cutoff)
       IN  /\ elide' = [elide EXCEPT !.elide_map = m]
           /\ elide_call' =
                  [ElideCall("elide_gc_callback_handler", "", tv, cutoff.tv_sec)
                     EXCEPT !.logged = <<hashmap_size(elide.elide_map),
                                         hashmap_size(m)>>]
           /\ marks' = [k \in DOMAIN m |-> marks[k]]
    /\ UNCHANGED <<sampler_vars, validate_vars>>

InitElide ==
    /\ \E config \in ElideConfigs : elide_init(config)
    /\ SamplerUnused
    /\ ValidateUnused

NextElide ==
    \/ \E key \in ElideKeys, tv \in Timevals : ElideMark(key, tv)
    \/ \E key \in ElideKeys, tv \in Timevals : ElideUnmark(key, tv)
    \/ \E tv \in Timevals : elide_gc_callback_handler(tv)

SpecElide == InitElide /\ [][NextElide]_vars

\* ================================================================= validator

\* A line is a sequence of one-character strings; the byte after its last
\* character, in the copy strndup makes, is the terminating NUL.
NUL == "NUL"
At(str, i) == IF i \in 1..Len(str) THEN str[i] ELSE NUL

Digits == <<"0", "1", "2", "3", "4", "5", "6", "7", "8", "9">>
IsDigit(c) == \E d \in 1..10 : Digits[d] = c
DigitValue(c) == (CHOOSE d \in 1..10 : Digits[d] = c) - 1

\* The number of digits of str from position i on.
RECURSIVE DigitsLen(_, _)
DigitsLen(str, i) ==
    IF IsDigit(At(str, i)) THEN 1 + DigitsLen(str, i + 1) ELSE 0

\* The decimal value of the n digits of str from position i on.
RECURSIVE DigitsValue(_, _, _)
DigitsValue(str, i, n) ==
    IF n = 0 THEN 0
    ELSE DigitsValue(str, i, n - 1) * 10 + DigitValue(str[i + n - 1])

\* strtod(str + start - 1, &err) for decimal text: an optional sign, digits
\* and at most one '.', with at least one digit. err = start when nothing
\* could be converted, and the value is then 0.
strtod(str, start) ==
    LET signed == At(str, start) \in {"-", "+"}
        p == IF signed THEN start + 1 ELSE start
        n1 == DigitsLen(str, p)
        dot == At(str, p + n1) = "."
        n2 == IF dot THEN DigitsLen(str, p + n1 + 1) ELSE 0
        whole == DigitsValue(str, p, n1)
        frac == DigitsValue(str, p + n1 + 1, n2)
        magnitude == whole * Pow10(n2) + frac
    IN  IF n1 + n2 = 0
          THEN [value |-> D(0), err |-> start]
          ELSE [value |-> Num(IF At(str, start) = "-" THEN 0 - magnitude
                                                       ELSE magnitude,
                              Pow10(n2)),
                err |-> p + n1 + (IF dot THEN 1 + n2 ELSE 0)]

NULL == 0

\* memrchr(str, c, n): the position of the last c among the first n bytes.
RECURSIVE memrchr(_, _, _)
memrchr(str, c, n) ==
    IF n = 0 THEN NULL
    ELSE IF str[n] = c THEN n
    ELSE memrchr(str, c, n - 1)

\* memchr(str + start - 1, c, n): the position of the first c among the n
\* bytes from start on.
RECURSIVE memchr(_, _, _, _)
memchr(str, start, c, n) ==
    IF n = 0 THEN NULL
    ELSE IF At(str, start) = c THEN start
    ELSE memchr(str, start + 1, c, n - 1)

METRIC_UNKNOWN == 0 - 1

valid_stat_types == <<<<"c">>, <<"m", "s">>, <<"k", "v">>, <<"g">>, <<"h">>, <<"s">>>>
valid_stat_types_len == 6

\* The enum's ordinals, in the order of valid_stat_types.
MetricTypeOf == <<COUNTER, TIMER, KV, GAUGE, "METRIC_HIST", "METRIC_S">>

parse_stat_type(str, start, len) ==
    LET tag == [i \in 1..len |-> At(str, start + i - 1)]
        found == {i \in 1..valid_stat_types_len : valid_stat_types[i] = tag}
    IN  IF 1 <= len /\ len <= 2 /\ found # {}
          THEN (CHOOSE i \in found : TRUE) - 1
          ELSE METRIC_UNKNOWN

\* Variant: the rate is read from the byte after the second '|'.
RateStart_at_sign(end) == end + 1

\* "start = end + 2": the text after "|@".
RateStart(end) == end + 2

Failed(res) == [res EXCEPT !.ret = 1]

\* Variant: the first ':' separates the key from the value.
ValueSeparator_first(line_copy, len) == memchr(line_copy, 1, ":", len)

\* "end = memrchr(start, ':', plen)": searched backwards.
ValueSeparator(line_copy, len) == memrchr(line_copy, ":", len)

\* The optional "|@RATE" segment; end is the second '|'.
ParseRate(line_copy, len, end, res) ==
    IF (len - (end - 1) > 1) /\ At(line_copy, end + 1) = "@"
      THEN
        LET start == RateStart(end)
            plen == len - (start - 1)
            rate == strtod(line_copy, start)
            r1 == [res EXCEPT !.presampling_value = rate.value]
        IN  IF plen = 0 THEN Failed(res)
            ELSE IF rate.value = D(0) /\ rate.err = start THEN Failed(r1)
            ELSE [r1 EXCEPT !.ret = 0]
      ELSE Failed(res)

\* From the first '|' on: the type tag and what follows it.
ParseType(line_copy, len, first_bar, res) ==
    LET start == first_bar + 1
        plen0 == len - (start - 1)
        end == memchr(line_copy, start, "|", plen0)
        plen == IF end # NULL THEN end - start ELSE plen0
        r1 == [res EXCEPT !.type = parse_stat_type(line_copy, start, plen)]
    IN  IF r1.type < 0 THEN Failed(r1)
        ELSE IF end # NULL THEN ParseRate(line_copy, len, end, r1)
        ELSE [r1 EXCEPT !.ret = 0]

\* validate_statsd from "start = line_copy" on; res is *result as the caller
\* passed it.
ParseLine(line_copy, len, res) ==
    LET end == ValueSeparator(line_copy, len)
        start == end + 1
        plen == len - (start - 1)
        r1 == [res EXCEPT !.presampling_value = D(1)]
        v == strtod(line_copy, start)
        r2 == [r1 EXCEPT !.value = v.value]
        first_bar == memchr(line_copy, start, "|", plen)
    IN  IF end = NULL THEN Failed(res)
        ELSE IF end - 1 < 1 THEN Failed(res)
        ELSE IF v.value = D(0) /\ v.err = start THEN Failed(r2)
        ELSE IF first_bar = NULL THEN Failed(r2)
        ELSE ParseType(line_copy, len, first_bar, r2)

\* strndup(line, len): a private copy, or NULL.
strndup(str, len, malloc_ok) ==
    IF malloc_ok THEN [i \in 1..len |-> str[i]] ELSE <<>>

\* The bytes of str with every ':' and '|' overwritten by NUL, as an
\* in-place tokenizer leaves them.
Tokenized(str) ==
    [i \in 1..Len(str) |-> IF str[i] \in {":", "|"} THEN NUL ELSE str[i]]

\* Variant: works on the caller's buffer and cuts it at the separators.
validate_statsd_in_place(str, len, malloc_ok, res) ==
    [result |-> ParseLine(str, len, res), line |-> Tokenized(str)]

\* What validate_statsd leaves in *result (with its return value) and in the
\* caller's line, which it only reads to make line_copy.
validate_statsd(str, len, malloc_ok, res) ==
    LET line_copy == strndup(str, len, malloc_ok)
    IN  [result |-> IF ~malloc_ok THEN Failed(res)
                                  ELSE ParseLine(line_copy, len, res),
         line |-> str]

\* The parts the lines are put together from.
KeyParts == {<<>>, <<"k">>, <<"k", ":", "v">>, <<"k", ":", "7">>}
ColonParts == {<<>>, <<":">>}
ValueParts ==
    {<<>>, <<"2", ".", "5">>, <<"4", "2", ".", "0", "0", "0">>, <<"0">>,
     <<"x">>, <<"2", "x">>, <<"-", "1">>, <<".">>}
BarParts == {<<>>, <<"|">>}
TypeParts ==
    {<<"c">>, <<"m", "s">>, <<"k", "v">>, <<"g">>, <<"h">>, <<"s">>,
     <<>>, <<"x">>, <<"m", "s", "x">>}
TailParts ==
    {<<>>, <<"|">>, <<"|", "@">>, <<"|", "@", "0", ".", "2">>, <<"|", "@", "0">>,
     <<"|", "@", "-", "1">>, <<"|", "@", "2">>, <<"|", "@", "x">>, <<"|", "x">>,
     <<"|", "@", "0", ".", "2", "|", "x">>}

Lines ==
    {k \o c \o v \o b \o t \o r :
        k \in KeyParts, c \in ColonParts, v \in ValueParts, b \in BarParts,
        t \in TypeParts, r \in TailParts}

InitValidate ==
    /\ line \in Lines
    /\ result = NoResult
    /\ SamplerUnused
    /\ ElideUnused

\* One call validate_statsd(line, strlen(line), &result).
Validate(malloc_ok) ==
    /\ result.ret = 0 - 1
    /\ LET r == validate_statsd(line, Len(line), malloc_ok, result)
       IN  /\ result' = r.result
           /\ line' = r.line
    /\ UNCHANGED <<sampler_vars, elide_vars>>

NextValidate == \E malloc_ok \in BOOLEAN : Validate(malloc_ok)

SpecValidate == InitValidate /\ [][NextValidate]_vars

\* =============================================================== properties

IsConsider(c) == c.op \in SamplerTypes

\* ----------------------------------------------------------------------- C1

CardinalityRespected == hashmap_size(map) <= sampler.cardinality

FlaggedAtCap ==
    (/\ IsConsider(call')
     /\ call'.key \notin DOMAIN map
     /\ hashmap_size(map) >= sampler.cardinality)
    => (call'.ret = FLAGGED /\ map' = map)

\* C1: the map never holds more than cardinality buckets, and a consider_*
\* call for a name not in the map, made while the map holds at least
\* cardinality buckets, returns SAMPLER_FLAGGED and leaves the map as it was.
C1_CardinalityCap == [](CardinalityRespected) /\ [][FlaggedAtCap]_vars

\* A name was just flagged because the map is full (not for want of memory).
C1_Witness ==
    /\ IsConsider(call)
    /\ call.ret = FLAGGED
    /\ call.key \notin DOMAIN map
    /\ sampler.cardinality >= 1
    /\ hashmap_size(map) = sampler.cardinality

\* ----------------------------------------------------------------------- C2

\* C2: right after any consider_* call on a name returns, a window count
\* above the threshold implies that the name's bucket is sampling, the call
\* that creates the bucket included.
C2_EntersSampling ==
    (IsConsider(call) /\ call.key \in DOMAIN map)
    => (map[call.key].last_window_count > sampler.threshold
        => map[call.key].sampling)

\* ----------------------------------------------------------------------- C3

Cleared(k) == map[k].sampling /\ ~map'[k].sampling

\* The flag is cleared exactly when the bucket is sampling with a window count
\* at or below the threshold, and the reservoir index is then 0.
RolloverExit(k) ==
    /\ Cleared(k) <=> (map[k].sampling
                         /\ map[k].last_window_count <= sampler.threshold)
    /\ Cleared(k) => map'[k].reservoir_index = 0

LeavesSamplingIn(ops) ==
    \A k \in DOMAIN map \cap DOMAIN map' :
        /\ Cleared(k) => call'.op \in ops
        /\ call'.op \in ops => RolloverExit(k)

\* C3: the sampling flag goes from true to false only in the window-rollover
\* step, which sampler_flush and sampler_update_flags both run; it does so
\* exactly when the bucket is sampling with last_window_count <= threshold,
\* and reservoir_index is 0 right after. No consider_* call and no expiry
\* sweep clears the flag.
C3_LeavesSampling ==
    [][LeavesSamplingIn({"sampler_flush", "sampler_update_flags"})]_vars

\* C3 as stated: the flag is cleared only in the rollover step of a flush.
C3_LeavesSamplingInFlushOnly == [][LeavesSamplingIn({"sampler_flush"})]_vars

\* A flush has just closed a window in which a bucket was sampling (an event
\* of that window was answered SAMPLING) and the bucket is no longer sampling.
C3_Witness ==
    /\ call.op = "sampler_flush"
    /\ \E k \in DOMAIN map \cap DOMAIN closed_window.events :
        /\ ~map[k].sampling
        /\ map[k].reservoir_index = 0
        /\ \E i \in DOMAIN closed_window.events[k] :
               closed_window.events[k][i].ret = SAMPLING

\* ----------------------------------------------------------------------- C4

ThreeTens(events) ==
    /\ Len(events) = 3
    /\ \A i \in 1..3 : /\ events[i].type = COUNTER
                       /\ events[i].value = D(10)
                       /\ events[i].presampling_value = D(1)

\* A flush has just closed the window in which counter k was created and
\* received three events of value 10 with no presampling, threshold 2.
CounterScenario(k) ==
    /\ call.op = "sampler_flush"
    /\ sampler.threshold = 2
    /\ k \in closed_window.created
    /\ k \in DOMAIN closed_window.events
    /\ ThreeTens(closed_window.events[k])

CounterScenarioEmits(k, rate) ==
    CounterScenario(k) =>
        /\ out[k] = <<Line(k, D(10), "c", rate)>>
        /\ map[k].sum = D(0)
        /\ map[k].count = 0
        /\ map[k].sampling

\* C4: threshold 2, a fresh counter receives three events of value 10 with
\* no presampling in one window: the next flush emits exactly one counter
\* line with average 10 and rate 1 (only the third event is accumulated),
\* and leaves sum = 0, count = 0, sampling = true.
C4_CounterScenario == CounterScenarioEmits(ShortKey, D(1))

\* C4 as stated: the emitted rate is 1/3.
C4_CounterScenarioOneThird == CounterScenarioEmits(ShortKey, Num(1, 3))

C4_Witness ==
    /\ CounterScenario(ShortKey)
    /\ out[ShortKey] = <<Line(ShortKey, D(10), "c", D(1))>>
    /\ map[ShortKey].sampling

\* ----------------------------------------------------------------------- C5

\* C5: right after every sampler_flush returns, every bucket in the map has
\* count = 0 and sum = 0.
C5_AccumulatorsReset ==
    call.op = "sampler_flush" =>
        \A k \in DOMAIN map : map[k].count = 0 /\ map[k].sum = D(0)

\* ----------------------------------------------------------------------- C6

Expired(bucket) ==
    ~bucket.sampling /\ now - bucket.last_modified_at > sampler.hm_ttl

SweepDeletesExactly ==
    call'.op = "expiry_callback_handler" =>
        /\ \A k \in DOMAIN map : k \notin DOMAIN map' <=> Expired(map[k])
        /\ \A k \in DOMAIN map' : k \in DOMAIN map /\ map'[k] = map[k]

NothingExpiredLeft ==
    call.op = "expiry_callback_handler" =>
        \A k \in DOMAIN map : ~Expired(map[k])

\* C6: with hm_ttl = T # -1 a sweep deletes a bucket iff it is not sampling
\* and now - last_modified_at > T; every other bucket is kept with all its
\* fields unchanged, so right after a sweep no non-sampling bucket is older
\* than T.
C6_ExpirySweep == [][SweepDeletesExactly]_vars /\ [](NothingExpiredLeft)

\* A sweep has just deleted one bucket and kept another.
C6_Witness ==
    /\ call.op = "expiry_callback_handler"
    /\ sampler.hm_ttl # -1
    /\ DOMAIN closed_window.events \ DOMAIN map # {}
    /\ DOMAIN map # {}

\* ----------------------------------------------------------------------- C7

AllSampled(events) ==
    \A i \in DOMAIN events : events[i].ret = SAMPLING

OfferedValues(events) == {events[i].value : i \in DOMAIN events}

IsMax(v, vs) == v \in vs /\ \A w \in vs : ~DGt(w, v)

IsMin(v, vs) == v \in vs /\ \A w \in vs : ~DLt(w, v)

\* C7: a timer bucket whose events of the current window were all offered in
\* sampling mode has upper = the largest and lower = the smallest of the
\* window's values, unless upper is still DBL_MIN or lower still DBL_MAX.
C7_ExtremaExact ==
    \A k \in DOMAIN map \cap DOMAIN window_events :
        (/\ map[k].type = TIMER
         /\ window_events[k] # <<>>
         /\ AllSampled(window_events[k]))
        => /\ \/ map[k].upper = DBL_MIN
              \/ IsMax(map[k].upper, OfferedValues(window_events[k]))
           /\ \/ map[k].lower = DBL_MAX
              \/ IsMin(map[k].lower, OfferedValues(window_events[k]))

\* ----------------------------------------------------------------------- C8

IsSamplingAnswer ==
    call'.op = "sampler_is_sampling" =>
        /\ call'.ret \in {SAMPLING, NOT_SAMPLING}
        /\ call'.ret = SAMPLING <=>
               /\ call'.key \in DOMAIN map
               /\ map[call'.key].sampling
               /\ map[call'.key].type = call'.type
        /\ UNCHANGED <<sampler, map, now, heap_overflow>>

\* C8: sampler_is_sampling(key, type) returns SAMPLING iff a bucket for key
\* exists, is sampling and has the queried type, NOT_SAMPLING otherwise, and
\* changes no sampler state.
C8_IsSampling == [][IsSamplingAnswer]_vars

\* The query has just answered SAMPLING.
C8_Witness ==
    /\ call.op = "sampler_is_sampling"
    /\ call.ret = SAMPLING
    /\ call.key \in DOMAIN map
    /\ map[call.key].type = call.type

\* A sampling bucket has just been queried with another type.
C8_WitnessOtherType ==
    /\ call.op = "sampler_is_sampling"
    /\ call.ret = NOT_SAMPLING
    /\ call.key \in DOMAIN map
    /\ map[call.key].sampling
    /\ map[call.key].type # call.type

\* ----------------------------------------------------------------------- C9

WindowCountStep ==
    /\ (IsConsider(call') \/ call'.op = "expiry_callback_handler") =>
           \A k \in DOMAIN map \cap DOMAIN map' :
               map'[k].last_window_count >= map[k].last_window_count
    /\ call'.op = "sampler_flush" =>
           \A k \in DOMAIN map' : map'[k].last_window_count = 0

\* C9: no consider_* call and no expiry sweep decreases a bucket's
\* last_window_count, and every sampler_flush leaves last_window_count = 0
\* in every bucket of the map.
C9_MonotonicWindowCount == [][WindowCountStep]_vars

\* A flush has just closed a window in which a bucket that stays out of
\* sampling received an event.
C9_Witness ==
    /\ call.op = "sampler_flush"
    /\ \E k \in DOMAIN map \cap DOMAIN closed_window.events :
        /\ closed_window.events[k] # <<>>
        /\ closed_window.events[k][1].type # GAUGE
        /\ ~map[k].sampling
        /\ map[k].last_window_count = 0

\* ---------------------------------------------------------------------- C10

RECURSIVE SumOfValues(_, _)
SumOfValues(events, from) ==
    IF from > Len(events) THEN D(0)
    ELSE DAdd(events[from].value, SumOfValues(events, from + 1))

AllGauge(events) == \A i \in DOMAIN events : events[i].type = GAUGE

\* Gauge k was created in the window given by events and has received more
\* than threshold events in it.
FreshGauge(k, created, events) ==
    /\ sampler.threshold > 0
    /\ k \in created
    /\ k \in DOMAIN events
    /\ AllGauge(events[k])
    /\ Len(events[k]) > sampler.threshold

GaugeAccumulated(k) ==
    LET n == Len(window_events[k])
        T == sampler.threshold
    IN  /\ map[k].sampling
        /\ map[k].count = n - T
        /\ map[k].sum = SumOfValues(window_events[k], T + 1)

GaugeFlushed(k) ==
    LET n == Len(closed_window.events[k])
        T == sampler.threshold
        sum == SumOfValues(closed_window.events[k], T + 1)
    IN  out[k] = <<Line(k, DMul(sum, DInv(D(n - T))), "g", NAN)>>

\* C10: with threshold T > 0 a fresh gauge that receives n > T events in one
\* window is sampling after the n-th with count = n - T and sum = the sum of
\* the values of events T+1..n, and the flush that closes the window emits
\* exactly one gauge line for it, with value sum/count (9 for T = 2 and
\* values 5, 7, 9).
C10_GaugeAccumulation ==
    /\ \A k \in DOMAIN map :
           (IsConsider(call) /\ FreshGauge(k, created_in_window, window_events))
           => GaugeAccumulated(k)
    /\ \A k \in DOMAIN map :
           (/\ call.op = "sampler_flush"
            /\ FreshGauge(k, closed_window.created, closed_window.events))
           => GaugeFlushed(k)

GaugeValuesAre(events, vs) ==
    /\ Len(events) = Len(vs)
    /\ \A i \in DOMAIN events : events[i].value = vs[i]

\* Threshold 2 and a fresh gauge with values 5, 7, 9: the flush that closed
\* the window emitted one gauge line with value 9.
C10_Witness ==
    /\ call.op = "sampler_flush"
    /\ sampler.threshold = 2
    /\ FreshGauge(ShortKey, closed_window.created, closed_window.events)
    /\ GaugeValuesAre(closed_window.events[ShortKey], <<D(5), D(7), D(9)>>)
    /\ out[ShortKey] = <<Line(ShortKey, D(9), "g", NAN)>>

\* ---------------------------------------------------------------------- C11

\* A flush has just closed the window in which timer k was created and
\* received the values 1, 2, 3, 4, 5 in this order, threshold 2,
\* timer_flush_min_max set.
TimerScenario(k) ==
    /\ call.op = "sampler_flush"
    /\ sampler.threshold = 2
    /\ sampler.timer_flush_min_max
    /\ k \in closed_window.created
    /\ k \in DOMAIN closed_window.events
    /\ GaugeValuesAre(closed_window.events[k], <<D(1), D(2), D(3), D(4), D(5)>>)
    /\ \A i \in DOMAIN closed_window.events[k] :
           /\ closed_window.events[k][i].type = TIMER
           /\ closed_window.events[k][i].presampling_value = D(1)

\* Every line after the first two carries the rate "samples / count", where
\* count is what the window accumulated (one event: 4, the displaced maximum).
ReservoirLinesAtRate(lines, rate) ==
    \A j \in DOMAIN lines : j > 2 => lines[j].rate = rate

\* C11: threshold 2, timer_flush_min_max set, a fresh timer receives 1, 2,
\* 3, 4, 5 in one window: it enters sampling at the third event, and the next
\* flush emits an upper line with 5, a lower line with 3 (the smallest value
\* seen while sampling), then one line per non-NAN reservoir slot (here the
\* single slot holding 4), each at rate num_samples/count = 1/1.
C11_TimerScenario ==
    TimerScenario(ShortKey) =>
        LET events == closed_window.events[ShortKey]
            lines == out[ShortKey]
        IN  /\ events[1].ret = NOT_SAMPLING
            /\ events[2].ret = NOT_SAMPLING
            /\ \A i \in 3..5 : events[i].ret = SAMPLING
            /\ Len(lines) = 3
            /\ lines[1] = Line(ShortKey, D(5), "ms", D(1))
            /\ lines[2] = Line(ShortKey, D(3), "ms", D(1))
            /\ lines[3] = Line(ShortKey, D(4), "ms", Num(1, 1))
            /\ ReservoirLinesAtRate(lines, Num(1, 1))
            /\ map[ShortKey].sampling

C11_Witness ==
    /\ TimerScenario(ShortKey)
    /\ Len(out[ShortKey]) = 3
    /\ out[ShortKey][1].value = D(5)

\* ---------------------------------------------------------------------- C12

\* The event of the consider_* call that the step makes.
LastEvent == window_events'[call'.key][Len(window_events'[call'.key])]

Accumulates(type) ==
    /\ call'.op = type
    /\ call'.ret = SAMPLING
    /\ call'.key \in DOMAIN map

Added(dsum, dcount) ==
    /\ map'[call'.key].sum = DAdd(map[call'.key].sum, dsum)
    /\ D(map'[call'.key].count) = DAdd(D(map[call'.key].count), dcount)

PresamplingStep ==
    /\ Accumulates(GAUGE) => Added(LastEvent.value, D(1))
    /\ (Accumulates(COUNTER) /\ Presampled(LastEvent)) =>
           Added(DMul(LastEvent.value, DInv(LastEvent.presampling_value)),
                 DInv(LastEvent.presampling_value))

\* C12: an accumulated gauge event adds its value to sum and 1 to count
\* whatever its presampling_value, and an accumulated counter event with
\* 0 < presampling_value < 1 adds value/presampling_value to sum and
\* 1/presampling_value to count.
C12_GaugePresampling == [][PresamplingStep]_vars

\* ---------------------------------------------------------------------- C13

\* What the flush formats for bucket k of the map taken alone.
OwnFlush(k) ==
    IF ~map[k].sampling \/ map[k].count = 0 THEN Step(map[k], <<>>, FALSE)
    ELSE CASE map[k].type = COUNTER -> FlushCounter(k, map[k])
           [] map[k].type = GAUGE -> FlushGauge(k, map[k])
           [] map[k].type = TIMER -> FlushTimer(k, map[k])
           [] OTHER -> Step(map[k], <<>>, FALSE)

OverflowSkipped ==
    call'.op = "sampler_flush" =>
        /\ DOMAIN map' = DOMAIN map
        /\ \A k \in DOMAIN map :
            /\ map'[k].last_window_count = 0
            /\ out'[k] = OwnFlush(k).lines
            /\ (map[k].type \in {COUNTER, GAUGE} /\ OwnFlush(k).exit)
                   => out'[k] = <<>>
            /\ (/\ map[k].type \in {COUNTER, GAUGE}
                /\ map[k].sampling
                /\ map[k].count > 0
                /\ ~OwnFlush(k).exit) => Len(out'[k]) = 1

\* C13: a line that does not fit the 1472-byte buffer is skipped and the
\* flush goes on: every bucket stays in the map with last_window_count = 0,
\* the overflowing one included, and every other sampling bucket with
\* count > 0 emits the lines it would have emitted alone.
C13_OverflowDoesNotAbort == [][OverflowSkipped]_vars

\* A flush has just skipped the counter line of the long name (the bucket was
\* sampling with an accumulated event, and nothing was emitted for it) and
\* emitted a line for the short name.
C13_Witness ==
    /\ call.op = "sampler_flush"
    /\ {ShortKey, LongKey} \subseteq DOMAIN map
    /\ LongKey \in DOMAIN closed_window.events
    /\ \E i \in DOMAIN closed_window.events[LongKey] :
           /\ closed_window.events[LongKey][i].type = COUNTER
           /\ closed_window.events[LongKey][i].ret = SAMPLING
    /\ out[LongKey] = <<>>
    /\ out[ShortKey] # <<>>
    /\ map[LongKey].last_window_count = 0
    /\ map[ShortKey].last_window_count = 0

\* ---------------------------------------------------------------------- C14

MarkReturnsGeneration ==
    elide_call.op = "elide_mark" =>
        /\ elide_call.ret = elide.skip + (marks[elide_call.key] - 1)
        /\ elide.elide_map[elide_call.key].last_seen = elide_call.now

UnmarkReturnsSkip ==
    elide_call.op = "elide_unmark" =>
        /\ elide_call.ret = elide.skip
        /\ elide.elide_map[elide_call.key].last_seen = elide_call.now

GcRemovesExactly ==
    elide_call'.op = "elide_gc_callback_handler" =>
        LET X == elide_call'.ret
            m == elide.elide_map
        IN  /\ X = elide_call'.now.tv_sec - elide.gc_ttl
            /\ \A k \in DOMAIN m :
                   k \notin DOMAIN elide'.elide_map <=> m[k].last_seen.tv_sec <= X
            /\ \A k \in DOMAIN elide'.elide_map :
                   k \in DOMAIN m /\ elide'.elide_map[k] = m[k]

\* C15: a GC pass with cutoff second X removes exactly the entries with
\* last_seen.tv_sec <= X, whatever the microseconds, and keeps every other
\* entry unchanged; the timer's pass uses X = now.tv_sec - gc_ttl.
C15_ElideGc == [][GcRemovesExactly]_vars

\* A pass has just removed an entry and kept another, last seen later than
\* the cutoff's second.
C15_Witness ==
    /\ elide_call.op = "elide_gc_callback_handler"
    /\ elide_call.logged = <<2, 1>>
    /\ hashmap_size(elide.elide_map) = 1
    /\ \A k \in DOMAIN elide.elide_map :
           elide.elide_map[k].last_seen.tv_sec > elide_call.ret
    /\ elide_call.ret >= 0

\* ---------------------------------------------------------------------- C16

Called == result.ret # 0 - 1

\* C16: whenever validate_statsd returns 0 the record has a known type and
\* 0 < presampling_value <= 1.
C16_SuccessInvariant ==
    result.ret = 0 =>
        /\ result.type # METRIC_UNKNOWN
        /\ DGt(result.presampling_value, D(0))
        /\ ~DGt(result.presampling_value, D(1))

\* ---------------------------------------------------------------------- C17

HasColon(str) == \E i \in 1..Len(str) : str[i] = ":"

LastColon(str) ==
    CHOOSE i \in 1..Len(str) :
        str[i] = ":" /\ \A j \in (i + 1)..Len(str) : str[j] # ":"

\* The first '|' after position i, or one past the end.
BarAfter(str, i) ==
    IF \E j \in (i + 1)..Len(str) : str[j] = "|"
      THEN CHOOSE j \in (i + 1)..Len(str) :
               str[j] = "|" /\ \A h \in (i + 1)..(j - 1) : str[h] # "|"
      ELSE Len(str) + 1

\* The tag: the text between the first '|' after the last ':' and the next
\* '|' or the end of the line.
TagOf(str) ==
    LET b == BarAfter(str, LastColon(str))
    IN  SubSeq(str, b + 1, BarAfter(str, b) - 1)

TypeOfTag(tag) ==
    CASE tag = <<"c">> -> COUNTER
      [] tag = <<"m", "s">> -> TIMER
      [] tag = <<"k", "v">> -> KV
      [] tag = <<"g">> -> GAUGE
      [] tag = <<"h">> -> "METRIC_HIST"
      [] tag = <<"s">> -> "METRIC_S"
      [] OTHER -> "METRIC_UNKNOWN"

\* *result is as the caller passed it: the call left before the default
\* presampling_value was stored, which a line with a key and a ':' does only
\* when strndup fails.
ResultUntouched ==
    /\ result.ret = 1
    /\ result.presampling_value = NoResult.presampling_value

ColonsInKey == <<"k", ":", "v", ":", "4", "2", ".", "0", "0", "0", "|", "m", "s">>

\* C17: an accepted line has its value parsed from the text right after the
\* last ':' and its type given by the tag after the following '|', in the
\* order c, ms, kv, g, h, s; "k:v:42.000|ms" is accepted with value 42 and
\* type Timer.
C17_LastColon ==
    /\ result.ret = 0 =>
        /\ HasColon(line)
        /\ LastColon(line) > 1
        /\ result.value = strtod(line, LastColon(line) + 1).value
        /\ result.type \in 0..5
        /\ MetricTypeOf[result.type + 1] = TypeOfTag(TagOf(line))
    /\ (Called /\ line = ColonsInKey /\ ~ResultUntouched) =>
        /\ result.ret = 0
        /\ result.value = D(42)
        /\ MetricTypeOf[result.type + 1] = TIMER

C17_Witness ==
    /\ line = ColonsInKey
    /\ result.ret = 0
    /\ result.value = D(42)
    /\ result.type = 1

\* ---------------------------------------------------------------------- C18

HasSecondBar(str) ==
    BarAfter(str, BarAfter(str, LastColon(str))) <= Len(str)

SecondBar(str) == BarAfter(str, BarAfter(str, LastColon(str)))

WithRate == <<"k", ":", "2", ".", "5", "|", "m", "s", "|", "@", "0", ".", "2">>

\* C18: an accepted line has presampling_value = the number after "|@" when
\* it has a second '|' segment and 1 otherwise; "k:2.5|ms|@0.2" is accepted
\* with value 2.5, type Timer and presampling_value 0.2.
C18_PresamplingRate ==
    /\ result.ret = 0 =>
        result.presampling_value =
            IF HasSecondBar(line)
              THEN strtod(line, SecondBar(line) + 2).value
              ELSE D(1)
    /\ (Called /\ line = WithRate /\ ~ResultUntouched) =>
        /\ result.ret = 0
        /\ result.value = Num(5, 2)
        /\ MetricTypeOf[result.type + 1] = TIMER
        /\ result.presampling_value = Num(1, 5)

C18_Witness ==
    /\ line = WithRate
    /\ result.ret = 0
    /\ result.presampling_value = Num(1, 5)

\* A line without a rate has been accepted with presampling_value 1.
C18_WitnessDefault ==
    /\ result.ret = 0
    /\ ~HasSecondBar(line)
    /\ result.presampling_value = D(1)

\* ---------------------------------------------------------------------- C19

\* C19: a call of validate_statsd, successful or not, leaves the bytes of
\* the caller's line as they were.
C19_ParserPurity == [][result'.ret # 0 - 1 => line' = line]_vars

\* A call has just accepted a line with separators in it.
C19_Witness ==
    /\ result.ret = 0
    /\ line = WithRate
    /\ line \in Lines

\* A call has just rejected a line.
C19_WitnessRejected ==
    /\ result.ret = 1
    /\ HasColon(line)
    /\ line \in Lines

\* ---------------------------------------------------------------------- C20

\* The whole text is one decimal number.
IsNumeral(text) == text # <<>> /\ strtod(text, 1).err = Len(text) + 1

IsTag(text) == \E i \in 1..valid_stat_types_len : valid_stat_types[i] = text

\* KEY ':' VALUE '|' TYPE ( '|@' RATE )?
WellShaped(str) ==
    /\ HasColon(str)
    /\ LastColon(str) > 1
    /\ LET c == LastColon(str)
           b == BarAfter(str, c)
           b2 == BarAfter(str, b)
       IN  /\ b <= Len(str)
           /\ IsNumeral(SubSeq(str, c + 1, b - 1))
           /\ IsTag(SubSeq(str, b + 1, b2 - 1))
           /\ b2 <= Len(str) =>
                  /\ At(str, b2 + 1) = "@"
                  /\ IsNumeral(SubSeq(str, b2 + 2, Len(str)))

\* C20: validate_statsd returns nonzero for every line that is not of the
\* shape KEY ':' VALUE '|' TYPE ('|@' RATE)?: no ':', an empty key, a value
\* that is not a number, no '|', an unknown tag, an empty or unparseable rate,
\* or a trailing '|' segment that does not start with '@'.
C20_RejectionRules == (Called /\ ~WellShaped(line)) => result.ret # 0

\* ---------------------------------------------------------------------- C21

Quiet(bucket) == ~bucket.sampling \/ bucket.count = 0

\* The accumulators of bucket k are what they were.
AccumulatorsKept(k) ==
    /\ map'[k].sum = map[k].sum
    /\ map'[k].count = map[k].count
    /\ map'[k].upper = map[k].upper
    /\ map'[k].lower = map[k].lower
    /\ map'[k].reservoir = map[k].reservoir

\* The window rollover has been applied to bucket k.
RolledOver(k) ==
    /\ map'[k].sampling <=> map[k].last_window_count > sampler.threshold
    /\ map'[k].last_window_count = 0

QuietSkipped ==
    call'.op = "sampler_flush" =>
        \A k \in DOMAIN map :
            Quiet(map[k]) =>
                /\ k \in DOMAIN map'
                /\ out'[k] = <<>>
                /\ AccumulatorsKept(k)
                /\ RolledOver(k)

\* C21: for every bucket that is not sampling or has count = 0 when
\* sampler_flush runs, the flush gives the callback no line for that key,
\* leaves its sum, count, upper, lower and reservoir slots as they were, and
\* still rolls its window: sampling becomes last_window_count > threshold and
\* last_window_count becomes 0.
C21_QuietBucketsSkipped == [][QuietSkipped]_vars

\* A flush has just passed over a timer that was sampling with count = 0 (its
\* one sampled event of the window went to upper) and kept its upper.
C21_Witness ==
    /\ call.op = "sampler_flush"
    /\ \E k \in DOMAIN map \cap DOMAIN closed_window.events :
        /\ map[k].type = TIMER
        /\ map[k].count = 0
        /\ map[k].upper # DBL_MIN
        /\ out[k] = <<>>
        /\ map[k].last_window_count = 0
        /\ \E i \in DOMAIN closed_window.events[k] :
               closed_window.events[k][i].ret = SAMPLING

\* ---------------------------------------------------------------------- C22

\* The non-empty slots among the first threshold, in slot order (from 1).
FilledSlots(bucket) ==
    {j \in 1..sampler.threshold : ~isnan(bucket.reservoir[j])}

\* The s-th smallest element of the set of slots js.
NthSlot(js, s) == CHOOSE j \in js : Cardinality({i \in js : i <= j}) = s

\* The last n of the lines are one line per filled slot of the bucket, in
\* slot order, all at the rate n / count.
ReservoirLines(k, bucket, lines) ==
    LET js == FilledSlots(bucket)
        n == Cardinality(js)
        e == Len(lines) - n
    IN  /\ e \in 0..2
        /\ ~sampler.timer_flush_min_max => e = 0
        /\ \A s \in 1..n :
               lines[e + s] = Line(k, bucket.reservoir[NthSlot(js, s)], "ms",
                                   Num(n, bucket.count))

TimerFlushed ==
    call'.op = "sampler_flush" =>
        \A k \in DOMAIN map :
            (/\ map[k].type = TIMER
             /\ map[k].sampling
             /\ map[k].count > 0
             /\ k = ShortKey)
            => /\ ReservoirLines(k, map[k], out'[k])
               /\ FilledSlots(map'[k]) = {}

\* C22: for a sampling timer bucket with count > 0 whose lines fit the
\* buffer, sampler_flush emits exactly one line per non-NaN slot among the
\* first threshold reservoir slots (after at most an upper and a lower line),
\* each carrying the rate num_samples / count with num_samples the number of
\* non-NaN slots before the flush, and leaves all these slots NaN.
C22_ReservoirFlush == [][TimerFlushed]_vars

\* A flush has just emitted two reservoir lines, for two different slots, at
\* the same rate 2/2, and emptied both slots.
C22_Witness ==
    /\ call.op = "sampler_flush"
    /\ sampler.threshold = 2
    /\ ~sampler.timer_flush_min_max
    /\ ShortKey \in DOMAIN map
    /\ Len(out[ShortKey]) = 2
    /\ out[ShortKey][1].rate = Num(2, 2)
    /\ out[ShortKey][2].rate = Num(2, 2)
    /\ out[ShortKey][1].value # out[ShortKey][2].value
    /\ FilledSlots(map[ShortKey]) = {}

\* A flush has just emitted one reservoir line at the rate 1/2: one filled
\* slot, two events counted.
C22_WitnessHalf ==
    /\ call.op = "sampler_flush"
    /\ ShortKey \in DOMAIN map
    /\ Len(out[ShortKey]) >= 1
    /\ out[ShortKey][Len(out[ShortKey])].rate = Num(1, 2)
    /\ FilledSlots(map[ShortKey]) = {}

\* ---------------------------------------------------------------------- C23

\* sampler_consider_timer answered SAMPLING to one of the events.
SampledTimerEvent(events) ==
    \E i \in DOMAIN events : events[i].type = TIMER /\ events[i].ret = SAMPLING

\* C23: if sampler_consider_timer returned SAMPLING for at least one event
\* of a key during a window, the sampler_flush that ends the window gives the
\* flush callback at least one line for that key.
C23_NoAbsorbedTimerEvents ==
    call.op = "sampler_flush" =>
        \A k \in DOMAIN closed_window.events :
            SampledTimerEvent(closed_window.events[k]) => out[k] # <<>>

\* ---------------------------------------------------------------------- C24

\* The consider_* function just called is not the one of the bucket's type.
OtherTypeCall ==
    /\ IsConsider(call')
    /\ call'.key \in DOMAIN map
    /\ map[call'.key].type # call'.op

TypeIsolated ==
    /\ OtherTypeCall =>
           /\ map'[call'.key] = map[call'.key]
           /\ heap_overflow' = heap_overflow
    /\ \A k \in DOMAIN map \cap DOMAIN map' : map'[k].type = map[k].type

\* C24: a sampler_consider_counter, _timer or _gauge call for a name whose
\* bucket was created with another metric type leaves that bucket unchanged
\* (sampler_consider_timer in particular writes no upper, lower or reservoir
\* slot of a bucket that was allocated without a reservoir), and the stored
\* type of a bucket never changes.
C24_TypeIsolation == [][TypeIsolated]_vars

\* ---------------------------------------------------------------------- C25

IndexInBounds ==
    \A k \in DOMAIN map :
        map[k].type = TIMER =>
            /\ 0 <= map[k].reservoir_index
            /\ map[k].reservoir_index <= sampler.threshold

\* The slots (from 1) of bucket k whose content the step changed.
ChangedSlots(k) ==
    {j \in DOMAIN map[k].reservoir : map'[k].reservoir[j] # map[k].reservoir[j]}

\* A sampler_consider_timer call on a timer bucket either fills the slot at
\* the fill index and advances the index, or leaves the index alone and
\* changes at most one slot, none at all while the index is below the
\* threshold (the event went to upper or lower); it never writes outside the
\* first threshold slots.
WritesInBounds ==
    (/\ call'.op = TIMER
     /\ call'.key \in DOMAIN map
     /\ map[call'.key].type = TIMER)
    => LET k == call'.key
           index == map[k].reservoir_index
       IN  /\ DOMAIN map'[k].reservoir = 1..sampler.threshold
           /\ ~heap_overflow'
           /\ \/ /\ map'[k].reservoir_index = index + 1
                 /\ index < sampler.threshold
                 /\ ChangedSlots(k) \subseteq {index + 1}
                 /\ ~isnan(map'[k].reservoir[index + 1])
              \/ /\ map'[k].reservoir_index = index
                 /\ Cardinality(ChangedSlots(k)) <= 1
                 /\ index < sampler.threshold => ChangedSlots(k) = {}

\* C25: every timer bucket has 0 <= reservoir_index <= threshold in every
\* reachable state, and every reservoir write of sampler_consider_timer is
\* at a slot 0 <= k < threshold: at slot reservoir_index, which is then
\* incremented, while reservoir_index < threshold, and otherwise at the drawn
\* slot k = i mod last_window_count only when k < threshold.
C25_ReservoirBounds == [](IndexInBounds) /\ [][WritesInBounds]_vars

\* sampler_consider_timer has just taken an event of a timer whose reservoir
\* is full (fill index at the threshold) and which has counted more events
\* in this window than it has slots: one of them went through the draw.
C25_Witness ==
    /\ call.op = TIMER
    /\ call.ret = SAMPLING
    /\ call.key \in DOMAIN map
    /\ map[call.key].type = TIMER
    /\ sampler.threshold >= 1
    /\ map[call.key].reservoir_index = sampler.threshold
    /\ map[call.key].count > sampler.threshold
    /\ ~heap_overflow

\* ---------------------------------------------------------------------- C26

SamplesWithinCount ==
    \A k \in DOMAIN map :
        map[k].type = TIMER => NumSamples(map[k]) <= map[k].count

\* The rates of the timer lines the last flush emitted lie in (0, 1].
RatesWithinOne ==
    \A k \in DOMAIN out :
        \A j \in DOMAIN out[k] :
            out[k][j].unit = "ms" =>
                /\ DGt(out[k][j].rate, D(0))
                /\ ~DGt(out[k][j].rate, D(1))

\* C26: in every reachable state of a timer bucket, under any interleaving
\* of sampler_consider_timer, sampler_flush (with or without a line that
\* does not fit the buffer) and expiry sweeps, the number of non-NaN slots
\* among the first threshold is at most count, so every reservoir line a
\* flush emits carries a rate num_samples / count with 0 < rate <= 1.
C26_RateAtMostOne == SamplesWithinCount /\ RatesWithinOne

\* A flush has just emitted a line for a timer and stopped at a slot whose
\* line does not fit: the slot is still filled and count was not reset.
C26_Witness ==
    /\ call.op = "sampler_flush"
    /\ MidKey \in DOMAIN map
    /\ out[MidKey] # <<>>
    /\ NumSamples(map[MidKey]) >= 1
    /\ map[MidKey].count >= 2

\* A flush has just emitted a reservoir line at a rate below 1.
C26_WitnessBelowOne ==
    /\ call.op = "sampler_flush"
    /\ MidKey \in DOMAIN map
    /\ \E j \in DOMAIN out[MidKey] : DLt(out[MidKey][j].rate, D(1))

\* ---------------------------------------------------------------------- C27

\* Bucket k has received no consider_* call since its last window rollover.
IdleSinceRollover(k) == k \in DOMAIN map /\ window_events[k] = <<>>

\* The second flush after the last event of a bucket takes it out of
\* sampling, and a sweep deletes a non-sampling bucket older than the ttl.
IdleStep ==
    /\ call'.op = "sampler_flush" =>
           \A k \in DOMAIN map : IdleSinceRollover(k) => ~map'[k].sampling
    /\ call'.op = "expiry_callback_handler" =>
           \A k \in DOMAIN map :
               (~map[k].sampling /\ now - map[k].last_modified_at > sampler.hm_ttl)
               => k \notin DOMAIN map'

Touched(k) == IsConsider(call) /\ call.key = k

\* C27: with hm_ttl # -1, while the clock advances and sampler_flush and the
\* expiry sweep keep firing, a bucket, sampling or not, whose name receives
\* no further consider_* call is eventually deleted from the map: it is out
\* of sampling after at most two flushes and the first sweep that finds
\* now - last_modified_at > hm_ttl deletes it.
C27_IdleReclaimed ==
    /\ [][IdleStep]_vars
    /\ (ShortKey \in DOMAIN map) ~> (ShortKey \notin DOMAIN map \/ Touched(ShortKey))

\* A sweep has just deleted a bucket that had received no event since its
\* last rollover.
C27_Witness ==
    /\ call.op = "expiry_callback_handler"
    /\ sampler.hm_ttl # 0 - 1
    /\ ShortKey \in DOMAIN closed_window.events
    /\ closed_window.events[ShortKey] = <<>>
    /\ ShortKey \notin DOMAIN map

\* A timer that took an event while sampling has been idle for two flushes,
\* is out of sampling and older than the ttl: the next sweep deletes it.
C27_WitnessWasSampling ==
    /\ call.op = "sampler_flush"
    /\ IdleSinceRollover(ShortKey)
    /\ closed_window.events[ShortKey] = <<>>
    /\ map[ShortKey].type = TIMER
    /\ map[ShortKey].upper # DBL_MIN
    /\ ~map[ShortKey].sampling
    /\ now - map[ShortKey].last_modified_at > sampler.hm_ttl

====
